---------------------------- MODULE Spec2Model ----------------------------
(***************************************************************************)
(* A model of the NEAR MCP server (src/src/index.ts and its variant        *)
(* src/unnamed/part_000): the fifteen tool handlers, the batch_actions     *)
(* action translator, the result decoding of call_function and the error   *)
(* classification of every handler's catch block.                          *)
(*                                                                         *)
(* Texts.  A JavaScript string is modelled as a sequence of tokens.  Data  *)
(* that the code converts (amounts, gas, base64, JSON) is spelled one      *)
(* character per token; opaque names (account ids, method names, literal   *)
(* pieces of a message template) are one token each.  A template string    *)
(* `a ${b} c` is the concatenation of its pieces, so "the message contains *)
(* t" is "t is a contiguous part of the token sequence".                   *)
(*                                                                         *)
(* Optional values.  An optional field is a sequence of length at most 1:  *)
(* <<>> is undefined, <<v>> is the value v.                                *)
(***************************************************************************)
EXTENDS Integers, Sequences, FiniteSets, TLC

VARIABLES
    mainPc,          \* position of main(): "start", an await of setupNear ("setKey",
                     \* "connect", "account"), "transport", "serving" or "exited"
    nearConnection,  \* module-level connection handle, "" while null
    nearAccount,     \* module-level account handle, "" while null
    nearProvider,    \* module-level provider handle, "" while null
    nearAccountId,   \* module-level account id, Null while null
    pc,              \* per call: "idle", "rejected", an await of setupNear, "setup"
                     \* (setupNear has returned), "awaiting", "done"
    req,             \* per call: the request the transport dispatched
    ledger,          \* per call: the ledger operations the handler has issued
    translated,      \* per call: how many batch actions were handed to the translator
    reply,           \* per call: what the ledger answered (<<>> while none)
    blocks,          \* per call: the blocks the handler has returned
    escaped,         \* per call: TRUE when a failure propagated past the handler
    entryAccountId,  \* per call: nearAccountId as read when the handler was entered
    helperPc,        \* a helper applied on its own: "none", "ready", then the step done
    helperArg,       \* the argument the helper is applied to
    helperOut        \* what the helper steps returned, in order

vars == <<mainPc, nearConnection, nearAccount, nearProvider, nearAccountId,
          pc, req, ledger, translated, reply, blocks, escaped, entryAccountId,
          helperPc, helperArg, helperOut>>

-----------------------------------------------------------------------------
(* Bounds of the model *)

\* longest action list of a batch_actions request
MaxActions == 2

-----------------------------------------------------------------------------
(* Generic helpers on sequences *)

None == <<>>
Some(v) == <<v>>

Range(s) == {s[i] : i \in 1..Len(s)}

\* t occurs in s as a contiguous part
Contains(s, t) ==
    \E i \in 0..(Len(s) - Len(t)) : \A j \in 1..Len(t) : s[i + j] = t[j]

StartsWith(s, t) == Len(t) <= Len(s) /\ SubSeq(s, 1, Len(t)) = t

\* all sequences over S of length lo..hi
SeqsOf(S, lo, hi) == UNION {[1..n -> S] : n \in lo..hi}

RECURSIVE Repeat(_, _)
Repeat(ch, n) == IF n <= 0 THEN <<>> ELSE <<ch>> \o Repeat(ch, n - 1)

RECURSIVE SplitOn(_, _)
\* String.prototype.split(sep) for a one-character separator
SplitOn(s, sep) ==
    IF \A i \in 1..Len(s) : s[i] # sep
    THEN <<s>>
    ELSE LET k == CHOOSE i \in 1..Len(s) :
                      s[i] = sep /\ \A j \in 1..(i - 1) : s[j] # sep
         IN <<SubSeq(s, 1, k - 1)>> \o SplitOn(SubSeq(s, k + 1, Len(s)), sep)

Digits == <<"0", "1", "2", "3", "4", "5", "6", "7", "8", "9">>
IsDigit(ch) == ch \in Range(Digits)
\* the white space of the model's texts: space, tab, line feed, carriage return
WhiteSpace == {" ", "\t", "\n", "\r"}

RECURSIVE TrimLeft(_)
TrimLeft(s) == IF s # <<>> /\ s[1] \in WhiteSpace THEN TrimLeft(Tail(s)) ELSE s
RECURSIVE TrimRight(_)
TrimRight(s) ==
    IF s # <<>> /\ s[Len(s)] \in WhiteSpace
    THEN TrimRight(SubSeq(s, 1, Len(s) - 1)) ELSE s
Trim(s) == TrimRight(TrimLeft(s))

\* a < b for two numerals without leading zeros
NumeralLess(a, b) ==
    \/ Len(a) < Len(b)
    \/ /\ Len(a) = Len(b)
       /\ \E i \in 1..Len(a) :
             /\ \A j \in 1..(i - 1) : a[j] = b[j]
             /\ (CHOOSE x \in 1..10 : Digits[x] = a[i]) < (CHOOSE x \in 1..10 : Digits[x] = b[i])

RECURSIVE StripZeros(_)
\* value.replace(/^0+/, '')
StripZeros(s) == IF s # <<>> /\ s[1] = "0" THEN StripZeros(Tail(s)) ELSE s

\* the decimal numeral of a small natural number
RECURSIVE NatToText(_)
NatToText(n) == IF n < 10 THEN <<Digits[n + 1]>>
                ELSE NatToText(n \div 10) \o <<Digits[(n % 10) + 1]>>

\* results of operations that may throw: Ok(v) carries the value, Throw(e) the
\* thrown error object
Ok(v) == [ok |-> TRUE, val |-> v]
Throw(e) == [ok |-> FALSE, err |-> e]
\* a plain `new Error(message)`: no type, no cause, no kind
JsError(msg) == [type |-> "", causeName |-> "", message |-> Some(msg), execError |-> <<>>]

-----------------------------------------------------------------------------
(* Unit conversion *)

NEAR_NOMINATION_EXP == 24
GasExp == 12

\* near-api-js utils.format.parseNearAmount, as called by parseNear:
\* null for an empty input; commas removed and the text trimmed; split on ".";
\* throws on more than one "." or more than 24 fractional digits; otherwise the
\* whole part followed by the fraction padded to 24 digits, leading zeros cut.
\* No check is made that the characters are digits.
\* `value.replace(/^0+/, '')`, '0' when nothing is left
trimLeadingZeroes(value) == IF value = <<>> THEN <<"0">> ELSE value

\* the part of parseNearAmount after `amt.split('.')`
parseNearSplit(cleaned, split) ==
    LET wholePart == split[1]
        fracPart == IF Len(split) >= 2 THEN split[2] ELSE <<>>
    IN IF Len(split) > 2 \/ Len(fracPart) > NEAR_NOMINATION_EXP
       THEN Throw(JsError(<<"Cannot parse '">> \o cleaned \o <<"' as NEAR amount">>))
       ELSE Ok(Some(trimLeadingZeroes(StripZeros(
                wholePart \o fracPart
                \o Repeat("0", NEAR_NOMINATION_EXP - Len(fracPart))))))

\* the part of parseNearAmount after cleanupAmount
parseNearCleaned(cleaned) == parseNearSplit(cleaned, SplitOn(cleaned, "."))

parseNearAmount(amt) ==
    IF amt = <<>> THEN Ok(None)
    ELSE parseNearCleaned(Trim(SelectSeq(amt, LAMBDA ch : ch # ",")))

\* parseNear's `|| '0'` on a returned value and its catch on a thrown one
parseNearResult(amountString, r) ==
    IF r.ok
    THEN Ok(IF r.val = None THEN <<"0">> ELSE r.val[1])
    ELSE Throw(JsError(<<"Invalid NEAR amount format: \"">> \o amountString
                       \o <<"\". Use a decimal number like \"0.5\".">>))

\* parseNear: `parseNearAmount(s) || '0'`, any throw replaced by the
\* 'Invalid NEAR amount format' error
parseNear(amountString) == parseNearResult(amountString, parseNearAmount(amountString))

\* StringToBigInt on the trimmed text s of `text`
bigIntOfTrimmed(text, s) ==
    LET signed == s # <<>> /\ s[1] \in {"+", "-"}
        body == IF signed THEN Tail(s) ELSE s
    IN IF s = <<>> THEN Ok(<<"0">>)
       ELSE IF body = <<>> \/ \E i \in 1..Len(body) : ~IsDigit(body[i])
       THEN Throw(JsError(<<"Cannot convert ">> \o text \o <<" to a BigInt">>))
       ELSE Ok((IF signed /\ s[1] = "-" /\ StripZeros(body) # <<>> THEN <<"-">> ELSE <<>>)
               \o trimLeadingZeroes(StripZeros(body)))

\* BigInt(string) (StringToBigInt): surrounding white space is dropped, the empty
\* text is 0, an optional sign and decimal digits give the value, anything else
\* is a SyntaxError.  The value is kept as its canonical decimal numeral (amounts
\* exceed any fixed width).  Inputs of the model never spell 0x/0o/0b literals.
BigIntOf(text) == bigIntOfTrimmed(text, Trim(text))

\* b * BigInt(10**k) on canonical numerals
MulPow10(b, k) == IF b = <<"0">> THEN b ELSE b \o Repeat("0", k)

\* the product when the conversion returned, its throw otherwise
timesPow10(r, k) == IF r.ok THEN Ok(MulPow10(r.val, k)) ELSE r

\* variant: the display gas is scaled by 10^9
gasToBaseGiga(gasTeras) == timesPow10(BigIntOf(gasTeras), 9)

\* `BigInt(gasTeras) * BigInt(10**12)`
gasToBase(gasTeras) == timesPow10(BigIntOf(gasTeras), GasExp)

\* BigInt applied to what parseNear returned; parseNear's throw passes through
bigIntOfResult(r) == IF r.ok THEN BigIntOf(r.val) ELSE r

\* `BigInt(parseNear(amount))`
yoctoOf(amount) == bigIntOfResult(parseNear(amount))

-----------------------------------------------------------------------------
(* Payload codec *)

\* the base64 alphabet, value v at position v + 1
B64Alphabet ==
    <<"A", "B", "C", "D", "E", "F", "G", "H", "I", "J", "K", "L", "M",
      "N", "O", "P", "Q", "R", "S", "T", "U", "V", "W", "X", "Y", "Z",
      "a", "b", "c", "d", "e", "f", "g", "h", "i", "j", "k", "l", "m",
      "n", "o", "p", "q", "r", "s", "t", "u", "v", "w", "x", "y", "z",
      "0", "1", "2", "3", "4", "5", "6", "7", "8", "9", "+", "/">>

IsB64(ch) == ch \in Range(B64Alphabet) \/ ch \in {"-", "_"}

\* unbase64: the 6-bit value of a legal character ("-" and "_" are the URL-safe
\* spellings of "+" and "/")
B64Value(ch) ==
    IF ch = "-" THEN 62
    ELSE IF ch = "_" THEN 63
    ELSE (CHOOSE i \in 1..Len(B64Alphabet) : B64Alphabet[i] = ch) - 1

\* the text up to its first "=" (decoding stops there)
UpToPad(s) ==
    IF \A i \in 1..Len(s) : s[i] # "="
    THEN s
    ELSE SubSeq(s, 1, (CHOOSE i \in 1..Len(s) :
                           s[i] = "=" /\ \A j \in 1..(i - 1) : s[j] # "=") - 1)

RECURSIVE B64Groups(_)
\* the bytes of a sequence of 6-bit values: 4 values give 3 bytes, a tail of 3
\* gives 2, a tail of 2 gives 1, a tail of 1 gives none
B64Groups(v) ==
    IF Len(v) < 2 THEN <<>>
    ELSE IF Len(v) = 2 THEN <<v[1] * 4 + v[2] \div 16>>
    ELSE IF Len(v) = 3 THEN <<v[1] * 4 + v[2] \div 16, (v[2] % 16) * 16 + v[3] \div 4>>
    ELSE <<v[1] * 4 + v[2] \div 16, (v[2] % 16) * 16 + v[3] \div 4, (v[3] % 4) * 64 + v[4]>>
         \o B64Groups(SubSeq(v, 5, Len(v)))

\* Buffer.from(value, 'base64'): characters outside the alphabet are skipped,
\* decoding stops at the first "=", and nothing is ever thrown
B64Values(legal) == [i \in 1..Len(legal) |-> B64Value(legal[i])]
BufferFromBase64(value) == B64Groups(B64Values(SelectSeq(UpToPad(value), IsB64)))

\* decodeBase64: the try block cannot fail, so the 'Invalid base64 string' error
\* is never raised
decodeBase64(value) == Ok(BufferFromBase64(value))

\* printable ASCII, code c at position c - 31 (code 96 is spelled "<grave>")
Ascii ==
    <<" ", "!", "\"", "#", "$", "%", "&", "'", "(", ")", "*", "+", ",", "-", ".", "/",
      "0", "1", "2", "3", "4", "5", "6", "7", "8", "9", ":", ";", "<", "=", ">", "?",
      "@", "A", "B", "C", "D", "E", "F", "G", "H", "I", "J", "K", "L", "M", "N", "O",
      "P", "Q", "R", "S", "T", "U", "V", "W", "X", "Y", "Z", "[", "\\", "]", "^", "_",
      "<grave>", "a", "b", "c", "d", "e", "f", "g", "h", "i", "j", "k", "l", "m", "n", "o",
      "p", "q", "r", "s", "t", "u", "v", "w", "x", "y", "z", "{", "|", "}", "~">>

\* Buffer.prototype.toString(): printable ASCII bytes, tab, line feed and
\* carriage return give their character; the model spells every other byte as
\* one replacement token
BufferToString(bytes) ==
    [i \in 1..Len(bytes) |->
        IF bytes[i] >= 32 /\ bytes[i] <= 126 THEN Ascii[bytes[i] - 31]
        ELSE IF bytes[i] = 9 THEN "\t"
        ELSE IF bytes[i] = 10 THEN "\n"
        ELSE IF bytes[i] = 13 THEN "\r"
        ELSE "<?>"]

\* Buffer.from(text): the bytes of an ASCII text
BufferFromText(text) ==
    [i \in 1..Len(text) |->
        IF text[i] \in Range(Ascii)
        THEN (CHOOSE c \in 1..Len(Ascii) : Ascii[c] = text[i]) + 31
        ELSE IF text[i] = "\t" THEN 9
        ELSE IF text[i] = "\n" THEN 10
        ELSE IF text[i] = "\r" THEN 13
        ELSE 63]

\* JavaScript values that JSON texts of the model denote.  One record shape for
\* all: t is the kind, b a boolean, n a number, s a string, m the members of an
\* object (key k, integer value n), in the order of the object's own keys.  A
\* number is an integer of at most MaxSafeDigits digits, which a double holds
\* exactly, and is kept as the decimal numeral that JavaScript prints for it.
JNull == [t |-> "null", b |-> FALSE, n |-> <<>>, s |-> <<>>, m |-> <<>>]
JBool(x) == [t |-> "bool", b |-> x, n |-> <<>>, s |-> <<>>, m |-> <<>>]
JNum(x) == [t |-> "number", b |-> FALSE, n |-> x, s |-> <<>>, m |-> <<>>]
JStr(x) == [t |-> "string", b |-> FALSE, n |-> <<>>, s |-> x, m |-> <<>>]
JObj(x) == [t |-> "object", b |-> FALSE, n |-> <<>>, s |-> <<>>, m |-> x]
JArr == [t |-> "array", b |-> FALSE, n |-> <<>>, s |-> <<>>, m |-> <<>>]

RECURSIVE TextToNat(_)
TextToNat(d) ==
    IF d = <<>> THEN 0
    ELSE 10 * TextToNat(SubSeq(d, 1, Len(d) - 1))
         + ((CHOOSE i \in 1..10 : Digits[i] = d[Len(d)]) - 1)

RECURSIVE JoinWith(_, _)
JoinWith(parts, sep) ==
    IF parts = <<>> THEN <<>>
    ELSE IF Len(parts) = 1 THEN parts[1]
    ELSE parts[1] \o sep \o JoinWith(Tail(parts), sep)

\* the quoted form of a string: quote and backslash are escaped, and so are
\* the control characters tab, line feed and carriage return (\t, \n, \r)
Quote(str) ==
    LET esc(ch) == CASE ch \in {"\"", "\\"} -> <<"\\", ch>>
                     [] ch = "\t" -> <<"\\", "t">>
                     [] ch = "\n" -> <<"\\", "n">>
                     [] ch = "\r" -> <<"\\", "r">>
                     [] OTHER -> <<ch>>
    IN <<"\"">> \o JoinWith([i \in 1..Len(str) |-> esc(str[i])], <<>>) \o <<"\"">>

\* JSON.stringify(v) and, with pretty, JSON.stringify(v, null, 2)
JSONstringify(v, pretty) ==
    CASE v.t = "null" -> <<"n", "u", "l", "l">>
      [] v.t = "bool" -> IF v.b THEN <<"t", "r", "u", "e">> ELSE <<"f", "a", "l", "s", "e">>
      [] v.t = "number" -> v.n
      [] v.t = "string" -> Quote(v.s)
      [] v.t = "array" -> <<"[", "]">>
      [] v.t = "object" ->
            IF v.m = <<>> THEN <<"{", "}">>
            ELSE IF pretty
            THEN <<"{", "\n">>
                 \o JoinWith([i \in 1..Len(v.m) |->
                        <<" ", " ">> \o Quote(v.m[i].k) \o <<":", " ">> \o v.m[i].n],
                        <<",", "\n">>)
                 \o <<"\n", "}">>
            ELSE <<"{">>
                 \o JoinWith([i \in 1..Len(v.m) |->
                        Quote(v.m[i].k) \o <<":">> \o v.m[i].n], <<",">>)
                 \o <<"}">>

\* every integer of at most 15 digits is below 2^53
MaxSafeDigits == 15

\* a JSON integer of at most MaxSafeDigits digits
IsNumeral(t) ==
    LET d == IF t # <<>> /\ t[1] = "-" THEN Tail(t) ELSE t
    IN /\ d # <<>>
       /\ Len(d) <= MaxSafeDigits
       /\ \A i \in 1..Len(d) : IsDigit(d[i])
       /\ (Len(d) > 1 => d[1] # "0")

\* the number a numeral denotes, as JavaScript prints it: the numeral itself,
\* and 0 for -0
NumeralValue(t) == IF t = <<"-", "0">> THEN <<"0">> ELSE t

\* a quoted string without escapes; a control character may not stand in it
IsPlainQuoted(t) ==
    /\ Len(t) >= 2 /\ t[1] = "\"" /\ t[Len(t)] = "\""
    /\ \A i \in 2..(Len(t) - 1) : t[i] \notin {"\"", "\\", "<?>", "\n", "\t", "\r"}

Unquote(t) == SubSeq(t, 2, Len(t) - 1)

\* a member text `"key":int` whose key holds no quote, backslash, comma or colon
IsMember(t) ==
    LET kv == SplitOn(t, ":")
    IN Len(kv) = 2 /\ IsPlainQuoted(kv[1]) /\ IsNumeral(kv[2])

MemberOf(t) ==
    LET kv == SplitOn(t, ":")
    IN [k |-> Unquote(kv[1]), n |-> NumeralValue(kv[2])]

\* a key that is an array index: a canonical numeral up to 2^32 - 2
IsIndexKey(k) ==
    /\ k # <<>>
    /\ \A i \in 1..Len(k) : IsDigit(k[i])
    /\ (Len(k) > 1 => k[1] # "0")
    /\ \/ Len(k) < 10
       \/ Len(k) = 10 /\ ~NumeralLess(<<"4", "2", "9", "4", "9", "6", "7", "2", "9", "4">>, k)

\* the members as the object keeps them: a repeated key keeps its first place
\* and takes its last value
RECURSIVE OwnMembers(_, _)
OwnMembers(mems, i) ==
    IF i > Len(mems) THEN <<>>
    ELSE IF \E j \in 1..(i - 1) : mems[j].k = mems[i].k THEN OwnMembers(mems, i + 1)
    ELSE <<[k |-> mems[i].k,
            n |-> mems[CHOOSE j \in i..Len(mems) :
                          /\ mems[j].k = mems[i].k
                          /\ \A l \in (j + 1)..Len(mems) : mems[l].k # mems[i].k].n]>>
         \o OwnMembers(mems, i + 1)

\* the order of an object's own keys: array indices in ascending order, then
\* the other keys in the order they were added
OwnKeyOrder(own) ==
    SortSeq(SelectSeq(own, LAMBDA e : IsIndexKey(e.k)), LAMBDA a, b : NumeralLess(a.k, b.k))
    \o SelectSeq(own, LAMBDA e : ~IsIndexKey(e.k))

\* the object that a sequence of parsed members builds
ObjectOf(mems) == JObj(OwnKeyOrder(OwnMembers(mems, 1)))

\* JSON.parse on the JSON texts the model uses: the literals, integers of at
\* most MaxSafeDigits digits, strings without escapes, [] and objects of such
\* integer members written without white space inside, with white space around
\* the whole.  Every other text of the model's inputs is not JSON and throws;
\* the model's inputs hold no number with a fraction, an exponent or more
\* digits, no escape, no non-empty array and no nested object; a string that
\* holds a character outside the model's alphabet ("<?>") counts as not JSON.
\* t is the text without surrounding white space, mems the comma-separated
\* parts of what stands between its first and last character
JSONparseTrimmed(t, mems) ==
    CASE t = <<"n", "u", "l", "l">> -> Ok(JNull)
      [] t = <<"t", "r", "u", "e">> -> Ok(JBool(TRUE))
      [] t = <<"f", "a", "l", "s", "e">> -> Ok(JBool(FALSE))
      [] t = <<"[", "]">> -> Ok(JArr)
      [] t = <<"{", "}">> -> Ok(JObj(<<>>))
      [] IsNumeral(t) -> Ok(JNum(NumeralValue(t)))
      [] IsPlainQuoted(t) -> Ok(JStr(Unquote(t)))
      [] /\ Len(t) > 2 /\ t[1] = "{" /\ t[Len(t)] = "}"
         /\ \A i \in 1..Len(mems) : IsMember(mems[i]) ->
             Ok(ObjectOf([i \in 1..Len(mems) |-> MemberOf(mems[i])]))
      [] OTHER -> Throw(JsError(<<"Unexpected token in JSON">>))

Inner(t) == SubSeq(t, 2, Len(t) - 1)
JSONparseText(t) == JSONparseTrimmed(t, SplitOn(Inner(t), ","))
JSONparse(text) == JSONparseText(Trim(text))

\* `${v}` for a value that is not an object
ToStringJs(v) ==
    CASE v.t = "string" -> v.s
      [] v.t = "number" -> v.n
      [] v.t = "bool" -> IF v.b THEN <<"t", "r", "u", "e">> ELSE <<"f", "a", "l", "s", "e">>
      [] OTHER -> <<"[object Object]">>

\* typeof v === 'object' (null included)
TypeofObject(v) == v.t \in {"null", "object", "array"}

\* encodeArgs: Buffer.from(JSON.stringify(args)).  A map that arrives through
\* the JSON transport holds no cycle and no BigInt, so stringify cannot throw.
encodeArgs(args) == Ok(BufferFromText(JSONstringify(args, FALSE)))

-----------------------------------------------------------------------------
(* Display of amounts *)

DigitVal(ch) == (CHOOSE i \in 1..10 : Digits[i] = ch) - 1

RECURSIVE AddDigits(_, _, _)
\* decimal addition of two digit texts of equal length, least digit last
AddDigits(a, b, carry) ==
    IF a = <<>> THEN (IF carry = 0 THEN <<>> ELSE <<Digits[carry + 1]>>)
    ELSE LET sum == DigitVal(a[Len(a)]) + DigitVal(b[Len(b)]) + carry
         IN AddDigits(SubSeq(a, 1, Len(a) - 1), SubSeq(b, 1, Len(b) - 1), sum \div 10)
            \o <<Digits[(sum % 10) + 1]>>

PadStart(t, n, ch) == Repeat(ch, n - Len(t)) \o t

Longer(a, b) == IF Len(a) > Len(b) THEN Len(a) ELSE Len(b)

AddPadded(a, b, n) == AddDigits(PadStart(a, n, "0"), PadStart(b, n, "0"), 0)

\* a + b on decimal numerals
AddNumerals(a, b) == trimLeadingZeroes(StripZeros(AddPadded(a, b, Longer(a, b))))

RECURSIVE SubDigits(_, _, _)
\* decimal subtraction a - b of two digit texts of equal length, a not below b
SubDigits(a, b, borrow) ==
    IF a = <<>> THEN <<>>
    ELSE LET d == DigitVal(a[Len(a)]) - DigitVal(b[Len(b)]) - borrow
         IN SubDigits(SubSeq(a, 1, Len(a) - 1), SubSeq(b, 1, Len(b) - 1),
                      IF d < 0 THEN 1 ELSE 0)
            \o <<Digits[(IF d < 0 THEN d + 10 ELSE d) + 1]>>

SubPadded(a, b, n) == SubDigits(PadStart(a, n, "0"), PadStart(b, n, "0"), 0)

\* a - b on decimal numerals, a not below b
SubNumerals(a, b) == trimLeadingZeroes(StripZeros(SubPadded(a, b, Longer(a, b))))

\* v + p for a BigInt v (a numeral with "-" in front when negative) and a
\* numeral p
AddToBigInt(v, p) ==
    IF v[1] # "-" THEN AddNumerals(v, p)
    ELSE IF NumeralLess(p, Tail(v)) THEN <<"-">> \o SubNumerals(Tail(v), p)
    ELSE SubNumerals(p, Tail(v))

RECURSIVE FormatWithCommas(_)
\* formatWithCommas: /(-?\d+)(\d{3})/ replaced by '$1,$2' as long as it
\* matches, which puts a comma before every group of three digits counted from
\* the right and leaves a sign in front
FormatWithCommas(w) ==
    IF w # <<>> /\ w[1] = "-" THEN <<"-">> \o FormatWithCommas(Tail(w))
    ELSE IF Len(w) <= 3 THEN w
    ELSE FormatWithCommas(SubSeq(w, 1, Len(w) - 3)) \o <<",">> \o SubSeq(w, Len(w) - 2, Len(w))

RECURSIVE StripTrailingZeros(_)
StripTrailingZeros(t) ==
    IF t # <<>> /\ t[Len(t)] = "0" THEN StripTrailingZeros(SubSeq(t, 1, Len(t) - 1)) ELSE t

\* value.replace(/\.?0*$/, '')
DropFinalDot(z) == IF z # <<>> /\ z[Len(z)] = "." THEN SubSeq(z, 1, Len(z) - 1) ELSE z

TrimTrailingZeroes(t) == DropFinalDot(StripTrailingZeros(t))

FormatFracDigits == 5

\* the whole part (with commas), ".", and the first fracDigits of the 24
\* fractional digits of a yocto numeral, trailing zeros dropped
formatRounded(rounded, fracDigits) ==
    LET n == Len(rounded)
        whole == IF n > NEAR_NOMINATION_EXP
                 THEN SubSeq(rounded, 1, n - NEAR_NOMINATION_EXP) ELSE <<"0">>
        frac == SubSeq(PadStart(IF n > NEAR_NOMINATION_EXP
                                THEN SubSeq(rounded, n - NEAR_NOMINATION_EXP + 1, n)
                                ELSE rounded,
                                NEAR_NOMINATION_EXP, "0"), 1, fracDigits)
    IN TrimTrailingZeroes(FormatWithCommas(whole) \o <<".">> \o frac)

\* variant: the rounding offset is taken one decimal place too high
roundHalfUpOnePlaceHigh(canon, fracDigits) ==
    IF fracDigits # NEAR_NOMINATION_EXP /\ NEAR_NOMINATION_EXP - fracDigits - 1 > 0
    THEN AddToBigInt(canon, <<"5">> \o Repeat("0", NEAR_NOMINATION_EXP - fracDigits))
    ELSE canon

\* `balanceBN.iadd(ROUNDING_OFFSETS[roundingExp])` when digits are cut
roundHalfUp(canon, fracDigits) ==
    IF fracDigits # NEAR_NOMINATION_EXP /\ NEAR_NOMINATION_EXP - fracDigits - 1 > 0
    THEN AddToBigInt(canon, <<"5">> \o Repeat("0", NEAR_NOMINATION_EXP - fracDigits - 1))
    ELSE canon

\* the rest of formatNearAmount once BigInt(balance) has returned or thrown:
\* half a unit of the last kept digit is added, then the text of the sum is cut
\* into what stands before its last 24 characters (with commas, 0 when
\* nothing) and the first fracDigits of the last 24, padded with zeros in
\* front; trailing zeros are dropped
formatBigInt(b, fracDigits) ==
    IF b.ok THEN Ok(formatRounded(roundHalfUp(b.val, fracDigits), fracDigits)) ELSE b

\* near-api-js utils.format.formatNearAmount(balance, fracDigits)
formatNearAmount(balance, fracDigits) == formatBigInt(BigIntOf(balance), fracDigits)

\* the value returned by a try block, or the fallback of its catch block
valueOr(r, fallback) == IF r.ok THEN r.val ELSE fallback

\* formatNear: the formatted amount, or the input itself when formatting throws
formatNear(yoctoString) ==
    valueOr(formatNearAmount(yoctoString, FormatFracDigits), yoctoString)

\* variant: the padding is not subtracted
base64ByteLengthNoPadding(str) == Len(str) * 3

\* base64ByteLength: (len * 3 / 4) - padding, as a count of quarter bytes so that
\* a length that is no multiple of 4 keeps its fraction
base64ByteLengthQuarters(str) ==
    LET len == Len(str)
        padding == IF len >= 2 /\ str[len] = "=" /\ str[len - 1] = "=" THEN 2
                   ELSE IF len >= 1 /\ str[len] = "=" THEN 1
                   ELSE 0
    IN IF len = 0 THEN 0 ELSE len * 3 - 4 * padding

\* the numeral JavaScript prints for q / 4
QuartersToText(q) ==
    LET a == IF q < 0 THEN 0 - q ELSE q
    IN (IF q < 0 THEN <<"-">> ELSE <<>>)
       \o NatToText(a \div 4)
       \o (CASE a % 4 = 0 -> <<>>
             [] a % 4 = 1 -> <<".", "2", "5">>
             [] a % 4 = 2 -> <<".", "5">>
             [] a % 4 = 3 -> <<".", "7", "5">>)

\* base64ByteLength as the text a template prints
base64ByteLength(str) == QuartersToText(base64ByteLengthQuarters(str))

-----------------------------------------------------------------------------
(* Environment and external collaborators *)

\* process.env.NEAR_NETWORK_ID
NEAR_NETWORK_ID == <<"testnet">>
\* an account id the wallet reports once the connection is set up
ServerAccountId == <<"server.testnet">>
\* what nearWallet.getAccountId() can return: an account id, or the empty
\* string of a wallet that is not signed in
WalletAccountIds == {ServerAccountId, <<>>}

\* null, a value that is no string
Null == <<"<null>">>

\* `${x}` of a module-level string that may still be null
ShowId(id) == IF id = Null THEN <<"null">> ELSE id

KeyCurves == {"ed25519", "secp256k1"}
\* key data that base-decodes to a key of the right length
Base58Data == {"KeyA", "KeyB"}

\* near-api-js PublicKey.fromString: `<curve>:<data>` or `<data>` alone (then
\* ed25519); throws on any other shape, an unknown curve or undecodable data.
\* The parsed key is kept in its canonical text.
PublicKeyFromParts(parts) ==
    LET curve == IF Len(parts) = 2 THEN parts[1] ELSE <<"ed25519">>
        data == parts[Len(parts)]
    IN IF Len(parts) > 2
       THEN Throw(JsError(<<"Invalid encoded key format, must be <curve>:<encoded key>">>))
       ELSE IF Len(curve) # 1 \/ curve[1] \notin KeyCurves
       THEN Throw(JsError(<<"Unknown key type ">> \o curve))
       ELSE IF Len(data) # 1 \/ data[1] \notin Base58Data
       THEN Throw(JsError(<<"Unknown letter in key data">>))
       ELSE Ok(curve \o <<":">> \o data)

PublicKeyFromString(encodedKey) == PublicKeyFromParts(SplitOn(encodedKey, ":"))

\* the error objects a handler can catch.  type is error.type, causeName is
\* error.cause.name, message is error.message (None when the error has none,
\* Some(<<>>) when it is the empty string), execError is
\* error.kind.ExecutionError; "" and <<>> stand for an absent field.
NoError == [type |-> "", causeName |-> "", message |-> None, execError |-> <<>>]

\* what a ledger operation resolves to.  One record shape for every operation:
\* hash is result.transaction.hash, successValue is result.status.SuccessValue,
\* amounts the yocto numerals of a balance or account record, storage and
\* codeHash the rest of an account record, values the key/value pairs of a
\* view_state answer, bytes the raw result of a view call, keys the access keys,
\* failure the message of result.status.Failure when the result carries one.
NoResult ==
    [hash |-> <<>>, successValue |-> None, amounts |-> <<>>, storage |-> <<>>,
     codeHash |-> <<>>, values |-> <<>>, bytes |-> <<>>, keys |-> <<>>,
     failure |-> None]

Resolved(result) == [ok |-> TRUE, result |-> result, err |-> NoError]
Rejected(e) == [ok |-> FALSE, result |-> NoResult, err |-> e]

\* a ledger operation as the handler issues it; every field an operation does
\* not use keeps its empty value
NoOp ==
    [method |-> "", requestType |-> "", receiverId |-> <<>>, actions |-> <<>>,
     accountId |-> <<>>, methodName |-> <<>>, callArgs |-> None, argsBase64 |-> <<>>,
     gas |-> <<>>, amount |-> <<>>, prefix |-> <<>>, code |-> <<>>,
     publicKey |-> <<>>, methodNames |-> <<>>, allowance |-> None]

\* the blocks a handler returns
SuccessBlock(text) == [isError |-> FALSE, text |-> text]
ErrorBlock(text) == [isError |-> TRUE, text |-> text]

\* ` Reason: ${error.message}` when the error has a message
WithReason(base, e) ==
    IF e.message # None /\ e.message[1] # <<>>
    THEN base \o <<" Reason: ">> \o e.message[1] ELSE base

\* ` Contract Error: ${error.kind.ExecutionError}` when the error carries one
WithContractError(msg, e) ==
    IF e.execError # <<>> THEN msg \o <<" Contract Error: ">> \o e.execError ELSE msg

AccountDoesNotExistText(prefix, id) ==
    prefix \o id \o <<" does not exist on ">> \o NEAR_NETWORK_ID \o <<".">>

-----------------------------------------------------------------------------
(* Tool handlers.  For each tool: X_try is the try block from after          *)
(* `await setupNear()` up to the ledger call it issues (Throw when a local    *)
(* step throws first), X_then the rest of the try block once the ledger has   *)
(* answered, X_catch the message the catch block builds.  entryId is the      *)
(* value of nearAccountId read when the handler was entered.                  *)

\* 1. get_account_balance: the query takes no account argument
get_account_balance_try(r) == Ok([NoOp EXCEPT !.method = "getAccountBalance"])

get_account_balance_then(r, res) ==
    Ok(<<"Balance for ">> \o r.accountId \o <<":\n", "  Total: ">>
       \o formatNear(res.amounts[1]) \o <<" NEAR\n", "  Staked: ">>
       \o formatNear(res.amounts[2]) \o <<" NEAR\n", "  State Staked: ">>
       \o formatNear(res.amounts[3]) \o <<" NEAR\n", "  Available: ">>
       \o formatNear(res.amounts[4]) \o <<" NEAR">>)

get_account_balance_catch(r, e) ==
    IF e.type = "AccountDoesNotExist"
    THEN AccountDoesNotExistText(<<"Account ">>, r.accountId)
    ELSE WithReason(<<"Failed to fetch balance for ">> \o r.accountId \o <<".">>, e)

\* 2. view_account_state
PrefixOf(r) == IF r.prefix_base64 = None THEN <<>> ELSE r.prefix_base64[1]

view_account_state_try(r) ==
    Ok([NoOp EXCEPT !.method = "query", !.requestType = "view_state",
                    !.accountId = r.accountId, !.prefix = PrefixOf(r)])

view_account_state_then(r, res) ==
    IF res.values = <<>>
    THEN Ok(<<"Account ">> \o r.accountId \o <<" has no contract state">>
            \o (IF PrefixOf(r) # <<>> THEN <<" matching the prefix">> ELSE <<>>)
            \o <<". It might not have a contract deployed.">>)
    ELSE LET formattedState ==
                 JoinWith([i \in 1..Len(res.values) |->
                              <<"  Key: ">>
                              \o BufferToString(BufferFromBase64(res.values[i].key))
                              \o <<"\n  Value: ">>
                              \o BufferToString(BufferFromBase64(res.values[i].value))],
                          <<"\n---\n">>)
             prefixText == IF PrefixOf(r) # <<>>
                           THEN <<" (prefix base64: \"">> \o PrefixOf(r) \o <<"\")">>
                           ELSE <<>>
         IN Ok(<<"Contract state for ">> \o r.accountId \o prefixText \o <<":\n">>
               \o formattedState)

view_account_state_catch(r, e) ==
    IF e.type = "AccountDoesNotExist"
    THEN AccountDoesNotExistText(<<"Account ">>, r.accountId)
    ELSE IF e.type = "CONTRACT_CODE_NOT_FOUND" \/ e.causeName = "CONTRACT_CODE_NOT_FOUND"
    THEN <<"Account ">> \o r.accountId \o <<" does not have a contract deployed.">>
    ELSE WithReason(<<"Failed to fetch state for ">> \o r.accountId \o <<".">>, e)

\* 3. get_account_details
get_account_details_try(r) ==
    Ok([NoOp EXCEPT !.method = "query", !.requestType = "view_account",
                    !.accountId = r.accountId])

get_account_details_then(r, res) ==
    Ok(<<"Account details for ">> \o r.accountId \o <<":\n", "  Amount (Balance): ">>
       \o formatNear(res.amounts[1]) \o <<" NEAR\n", "  Locked (Staked): ">>
       \o formatNear(res.amounts[2]) \o <<" NEAR\n", "  Storage Usage: ">>
       \o res.storage \o <<" bytes\n", "  Code Hash: ">> \o res.codeHash)

get_account_details_catch(r, e) ==
    IF e.type = "AccountDoesNotExist"
    THEN AccountDoesNotExistText(<<"Account ">>, r.accountId)
    ELSE WithReason(<<"Failed to fetch details for ">> \o r.accountId \o <<".">>, e)

\* 4. create_sub_account
NewAccountId(r, entryId) == r.newAccountIdSuffix \o <<".">> \o ShowId(entryId)

\* the createAccount call once the key is parsed and the balance converted
createAccountOp(r, entryId, publicKey, amount) ==
    IF ~publicKey.ok THEN publicKey
    ELSE IF ~amount.ok THEN amount
    ELSE Ok([NoOp EXCEPT !.method = "createAccount",
                         !.accountId = NewAccountId(r, entryId),
                         !.publicKey = publicKey.val, !.amount = amount.val])

create_sub_account_try(r, entryId) ==
    createAccountOp(r, entryId, PublicKeyFromString(r.newAccountPublicKey),
                    yoctoOf(r.initialBalanceNear))

create_sub_account_then(r, entryId, res) ==
    Ok(<<"Successfully created sub-account ">> \o NewAccountId(r, entryId)
       \o <<" with initial balance ">> \o r.initialBalanceNear
       \o <<" NEAR. Transaction hash: ">> \o res.hash)

create_sub_account_catch(r, entryId, e) ==
    LET base == <<"Failed to create sub-account ">> \o NewAccountId(r, entryId) \o <<".">>
    IN IF e.type = "AccountAlreadyExists"
       THEN <<"Account ">> \o NewAccountId(r, entryId) \o <<" already exists.">>
       ELSE IF e.type = "CreateAccountNotAllowed"
       THEN base \o <<" Check if the suffix '">> \o r.newAccountIdSuffix
            \o <<"' is valid and doesn't conflict with existing implicit accounts.">>
       ELSE WithReason(base, e)

\* 5. delete_account
delete_account_try(r) ==
    Ok([NoOp EXCEPT !.method = "deleteAccount", !.accountId = r.beneficiaryId])

delete_account_then(r, res) ==
    Ok(<<"Successfully submitted request to delete account ">> \o ShowId(nearAccountId)
       \o <<" and transfer remaining balance to ">> \o r.beneficiaryId
       \o <<". Transaction hash: ">> \o res.hash)

delete_account_catch(r, e) ==
    IF e.type \in {"DeleteAccountHasEnoughBalance", "DeleteAccountHasRent"}
    THEN <<"Account ">> \o ShowId(nearAccountId)
         \o <<" cannot be deleted because it still has enough balance to cover storage. Ensure the balance is near zero.">>
    ELSE IF e.type = "AccountDoesNotExist"
    THEN <<"Account ">> \o r.beneficiaryId \o <<" (beneficiary) does not exist on ">>
         \o NEAR_NETWORK_ID \o <<".">>
    ELSE WithReason(<<"Failed to delete account ">> \o ShowId(nearAccountId) \o <<".">>, e)

\* 6. send_tokens
sendMoneyOp(r, amount) ==
    IF ~amount.ok THEN amount
    ELSE Ok([NoOp EXCEPT !.method = "sendMoney", !.receiverId = r.receiverId,
                         !.amount = amount.val])

send_tokens_try(r) == sendMoneyOp(r, yoctoOf(r.amountNear))

send_tokens_then(r, res) ==
    Ok(<<"Successfully sent ">> \o r.amountNear \o <<" NEAR to ">> \o r.receiverId
       \o <<". Transaction hash: ">> \o res.hash)

send_tokens_catch(r, e) ==
    IF e.type = "AccountDoesNotExist"
    THEN AccountDoesNotExistText(<<"Account ">>, r.receiverId)
    ELSE IF e.type = "NotEnoughBalance"
    THEN <<"Account ">> \o ShowId(nearAccountId) \o <<" does not have enough balance to send ">>
         \o r.amountNear \o <<" NEAR and cover gas fees.">>
    ELSE WithReason(<<"Failed to send ">> \o r.amountNear \o <<" NEAR to ">>
                    \o r.receiverId \o <<".">>, e)

\* 7. call_function
Void == <<"v", "o", "i", "d">>

ArgsOrEmpty(r) == IF r.args = None THEN JObj(<<>>) ELSE r.args[1]
GasOrDefault(r) == IF r.gasTeras = None THEN <<"3", "0">> ELSE r.gasTeras[1]
DepositOrDefault(r) ==
    IF r.attachedDepositNear = None THEN <<"0">> ELSE r.attachedDepositNear[1]

\* the functionCall call once gas and deposit are converted (gas first)
functionCallOp(r, gas, amount) ==
    IF ~gas.ok THEN gas
    ELSE IF ~amount.ok THEN amount
    ELSE Ok([NoOp EXCEPT !.method = "functionCall", !.accountId = r.contractId,
                         !.methodName = r.methodName, !.callArgs = Some(ArgsOrEmpty(r)),
                         !.gas = gas.val, !.amount = amount.val])

call_function_try(r) ==
    functionCallOp(r, gasToBase(GasOrDefault(r)), yoctoOf(DepositOrDefault(r)))

\* variant: a text that does not parse is dropped and the initial value stays
parsedOrVoid(text, parsed) == IF parsed.ok THEN parsed.val ELSE JStr(Void)

\* the decoded text, parsed as JSON when it parses and kept raw when it does not
parsedOrRaw(text, parsed) == IF parsed.ok THEN parsed.val ELSE JStr(text)

DecodeReturned(text) == parsedOrRaw(text, JSONparse(text))

\* variant: the decoded text is kept as it is, without the JSON.parse attempt
callResultRaw(successValue) ==
    IF successValue # None /\ successValue[1] # <<>>
    THEN JStr(BufferToString(BufferFromBase64(successValue[1])))
    ELSE JStr(Void)

\* resultValue of call_function: "void" unless status.SuccessValue is a
\* non-empty string, and then its base64-decoded text through DecodeReturned
callResultValue(successValue) ==
    IF successValue # None /\ successValue[1] # <<>>
    THEN DecodeReturned(BufferToString(BufferFromBase64(successValue[1])))
    ELSE JStr(Void)

\* `${typeof v === 'object' ? JSON.stringify(v, null, 2) : v}`
ShowValue(v) == IF TypeofObject(v) THEN JSONstringify(v, TRUE) ELSE ToStringJs(v)

call_function_then(r, res) ==
    Ok(<<"Successfully called ">> \o r.methodName \o <<" on ">> \o r.contractId
       \o <<". Result: ">> \o ShowValue(callResultValue(res.successValue))
       \o <<". Transaction hash: ">> \o res.hash)

call_function_catch(r, e) ==
    WithContractError(
        IF e.type = "AccountDoesNotExist"
        THEN AccountDoesNotExistText(<<"Contract account ">>, r.contractId)
        ELSE IF e.type = "MethodNotFound" \/ e.causeName = "METHOD_NOT_FOUND"
        THEN <<"Method \"">> \o r.methodName \o <<"\" not found on contract ">>
             \o r.contractId \o <<".">>
        ELSE WithReason(<<"Failed to call function ">> \o r.methodName \o <<" on ">>
                        \o r.contractId \o <<".">>, e),
        e)

\* 8. batch_actions
ActionTypes ==
    {"CreateAccount", "DeployContract", "FunctionCall", "Transfer", "Stake",
     "AddKey", "DeleteKey", "DeleteAccount"}

\* a native action; every field a kind does not use keeps its empty value
NoAccessKey ==
    [permission |-> "", receiverId |-> <<>>, methodNames |-> <<>>, allowance |-> None]
NoNative ==
    [kind |-> "", code |-> <<>>, methodName |-> <<>>, args |-> <<>>, gas |-> <<>>,
     deposit |-> <<>>, stake |-> <<>>, publicKey |-> <<>>, accessKey |-> NoAccessKey,
     beneficiaryId |-> <<>>]

\* the native FunctionCall action once its three conversions have run, or the
\* first of them that threw (args, then gas, then deposit)
functionCallOf(a, args, gas, deposit) ==
    IF ~args.ok THEN args
    ELSE IF ~gas.ok THEN gas
    ELSE IF ~deposit.ok THEN deposit
    ELSE Ok([NoNative EXCEPT !.kind = "functionCall", !.methodName = a.methodName,
                             !.args = args.val, !.gas = gas.val,
                             !.deposit = deposit.val])

translateFunctionCall(a) ==
    functionCallOf(a,
        IF a.args # None THEN encodeArgs(a.args[1]) ELSE Ok(<<>>),
        gasToBase(IF a.gasTeras # None /\ a.gasTeras[1] # <<>>
                  THEN a.gasTeras[1] ELSE <<"3", "0">>),
        IF a.depositNear # None /\ a.depositNear[1] # <<>>
        THEN yoctoOf(a.depositNear[1]) ELSE Ok(<<"0">>))

\* variant: an omitted allowance becomes an allowance of 0
addKeyOfZeroAllowance(permission, allowance, publicKey) ==
    IF permission.permission = "FullAccess"
    THEN IF ~publicKey.ok THEN publicKey
         ELSE Ok([NoNative EXCEPT !.kind = "addKey", !.publicKey = publicKey.val,
                                  !.accessKey = [NoAccessKey EXCEPT !.permission = "fullAccess"]])
    ELSE IF ~allowance.ok THEN allowance
    ELSE IF ~publicKey.ok THEN publicKey
    ELSE Ok([NoNative EXCEPT
                !.kind = "addKey", !.publicKey = publicKey.val,
                !.accessKey = [permission |-> "functionCall",
                               receiverId |-> permission.receiverId,
                               methodNames |-> permission.methodNames,
                               allowance |-> IF allowance.val = <<>> THEN Some(<<"0">>)
                                             ELSE Some(allowance.val)]])

\* the native AddKey action: the allowance is converted before the key is parsed
addKeyOf(permission, allowance, publicKey) ==
    IF permission.permission = "FullAccess"
    THEN IF ~publicKey.ok THEN publicKey
         ELSE Ok([NoNative EXCEPT !.kind = "addKey", !.publicKey = publicKey.val,
                                  !.accessKey = [NoAccessKey EXCEPT !.permission = "fullAccess"]])
    ELSE IF ~allowance.ok THEN allowance
    ELSE IF ~publicKey.ok THEN publicKey
    ELSE Ok([NoNative EXCEPT
                !.kind = "addKey", !.publicKey = publicKey.val,
                !.accessKey = [permission |-> "functionCall",
                               receiverId |-> permission.receiverId,
                               methodNames |-> permission.methodNames,
                               allowance |-> IF allowance.val = <<>> THEN None
                                             ELSE Some(allowance.val)]])

translateAddKey(a) ==
    addKeyOf(a.accessKey,
        IF a.accessKey.allowanceNear # None /\ a.accessKey.allowanceNear[1] # <<>>
        THEN yoctoOf(a.accessKey.allowanceNear[1]) ELSE Ok(<<>>),
        PublicKeyFromString(a.publicKey))

deployContractOf(code) ==
    IF ~code.ok THEN code
    ELSE Ok([NoNative EXCEPT !.kind = "deployContract", !.code = code.val])

transferOf(deposit) ==
    IF ~deposit.ok THEN deposit
    ELSE Ok([NoNative EXCEPT !.kind = "transfer", !.deposit = deposit.val])

\* variant: the stake is scaled like a display amount
stakeOfScaled(stake, publicKey) ==
    IF ~stake.ok THEN stake
    ELSE IF ~publicKey.ok THEN publicKey
    ELSE Ok([NoNative EXCEPT !.kind = "stake",
                             !.stake = MulPow10(stake.val, NEAR_NOMINATION_EXP),
                             !.publicKey = publicKey.val])

stakeOf(stake, publicKey) ==
    IF ~stake.ok THEN stake
    ELSE IF ~publicKey.ok THEN publicKey
    ELSE Ok([NoNative EXCEPT !.kind = "stake", !.stake = stake.val,
                             !.publicKey = publicKey.val])

deleteKeyOf(publicKey) ==
    IF ~publicKey.ok THEN publicKey
    ELSE Ok([NoNative EXCEPT !.kind = "deleteKey", !.publicKey = publicKey.val])

\* variant: the switch without its default branch, so that an action of no
\* known type yields an empty native action
translateWithoutDefault(a) ==
    CASE a.type = "CreateAccount" -> Ok([NoNative EXCEPT !.kind = "createAccount"])
      [] a.type = "DeployContract" -> deployContractOf(decodeBase64(a.wasmBase64))
      [] a.type = "FunctionCall" -> translateFunctionCall(a)
      [] a.type = "Transfer" -> transferOf(yoctoOf(a.depositNear[1]))
      [] a.type = "Stake" ->
            stakeOf(BigIntOf(a.stakeYocto), PublicKeyFromString(a.publicKey))
      [] a.type = "AddKey" -> translateAddKey(a)
      [] a.type = "DeleteKey" -> deleteKeyOf(PublicKeyFromString(a.publicKey))
      [] a.type = "DeleteAccount" ->
            Ok([NoNative EXCEPT !.kind = "deleteAccount", !.beneficiaryId = a.beneficiaryId])
      [] OTHER -> Ok(NoNative)

\* the switch of batch_actions: one abstract action to its native action
translate(a) ==
    CASE a.type = "CreateAccount" -> Ok([NoNative EXCEPT !.kind = "createAccount"])
      [] a.type = "DeployContract" -> deployContractOf(decodeBase64(a.wasmBase64))
      [] a.type = "FunctionCall" -> translateFunctionCall(a)
      [] a.type = "Transfer" -> transferOf(yoctoOf(a.depositNear[1]))
      [] a.type = "Stake" ->
            stakeOf(BigIntOf(a.stakeYocto), PublicKeyFromString(a.publicKey))
      [] a.type = "AddKey" -> translateAddKey(a)
      [] a.type = "DeleteKey" -> deleteKeyOf(PublicKeyFromString(a.publicKey))
      [] a.type = "DeleteAccount" ->
            Ok([NoNative EXCEPT !.kind = "deleteAccount", !.beneficiaryId = a.beneficiaryId])
      [] OTHER -> Throw(JsError(<<"Unknown action type in batch">>))

\* the index of the first callback result that is a throw, 0 when none is
FirstFailure(results) ==
    IF \A i \in 1..Len(results) : results[i].ok THEN 0
    ELSE CHOOSE i \in 1..Len(results) :
            ~results[i].ok /\ \A j \in 1..(i - 1) : results[j].ok

\* how many actions `actions.map` hands to the callback before it returns or throws
mapCalls(results, failure) == IF failure = 0 THEN Len(results) ELSE failure

\* variant: the collection stops one element early
mapResultShort(results, failure) ==
    IF failure = 0 THEN Ok([i \in 1..(Len(results) - 1) |-> results[i].val])
    ELSE results[failure]

\* `actions.map(...)`: the native actions in request order, or the first throw
mapResult(results, failure) ==
    IF failure = 0 THEN Ok([i \in 1..Len(results) |-> results[i].val])
    ELSE results[failure]

\* variant: the callback results collected from the last action to the first
TranslateAllReversed(actions) ==
    [i \in 1..Len(actions) |-> translate(actions[Len(actions) + 1 - i])]

TranslateAll(actions) == [i \in 1..Len(actions) |-> translate(actions[i])]

TranslateCalls(actions) ==
    mapCalls(TranslateAll(actions), FirstFailure(TranslateAll(actions)))

valuesOf(results) == [i \in 1..Len(results) |-> results[i].val]

\* variant: an action whose translation throws is left out and the rest is kept
nearActionsSkippingFailures(actions) ==
    Ok(valuesOf(SelectSeq(TranslateAll(actions), LAMBDA t : t.ok)))

nearActionsOf(actions) ==
    mapResult(TranslateAll(actions), FirstFailure(TranslateAll(actions)))

\* variant: the request's receiverId is used as it is, without the fallback
targetReceiverIdNoDefault(r, entryId) == r.receiverId

\* `receiverId || nearAccountId`: the second operand when the first is absent
\* or empty
targetReceiverId(r, entryId) == IF r.receiverId # <<>> THEN r.receiverId ELSE entryId

\* variant: a batch that starts with a FunctionCall is addressed to that
\* action's contractId
submitBatchToContract(r, entryId, nearActions) ==
    IF ~nearActions.ok THEN nearActions
    ELSE Ok([NoOp EXCEPT !.method = "signAndSendTransaction",
                         !.receiverId = IF r.actions[1].type = "FunctionCall"
                                        THEN r.actions[1].contractId
                                        ELSE targetReceiverId(r, entryId),
                         !.actions = nearActions.val])

\* the one submission, made only when every translation returned
submitBatch(r, entryId, nearActions) ==
    IF ~nearActions.ok THEN nearActions
    ELSE Ok([NoOp EXCEPT !.method = "signAndSendTransaction",
                         !.receiverId = targetReceiverId(r, entryId),
                         !.actions = nearActions.val])

batch_actions_try(r, entryId) == submitBatch(r, entryId, nearActionsOf(r.actions))

batch_actions_then(r, entryId, res) ==
    Ok(<<"Successfully executed batch transaction with ">> \o NatToText(Len(r.actions))
       \o <<" actions for receiver ">> \o ShowId(targetReceiverId(r, entryId))
       \o <<". Transaction hash: ">> \o res.hash)

batch_actions_catch(r, entryId, e) ==
    WithContractError(
        WithReason(<<"Failed to execute batch actions for ">>
                   \o ShowId(targetReceiverId(r, entryId)) \o <<".">>, e),
        e)

\* 9. deploy_contract
deployContractOp(wasmBytes) ==
    IF ~wasmBytes.ok THEN wasmBytes
    ELSE Ok([NoOp EXCEPT !.method = "deployContract", !.code = wasmBytes.val])

deploy_contract_try(r) == deployContractOp(decodeBase64(r.wasmBase64))

deploy_contract_then(r, res) ==
    Ok(<<"Successfully deployed contract to ">> \o ShowId(nearAccountId)
       \o <<". Transaction hash: ">> \o res.hash)

deploy_contract_catch(r, e) ==
    WithContractError(
        IF e.type = "ContractSizeExceeded"
        THEN <<"Contract size (">> \o base64ByteLength(r.wasmBase64)
             \o <<" bytes) exceeds the limit.">>
        ELSE IF e.type = "AccountAlreadyExists"
        THEN <<"Account ">> \o ShowId(nearAccountId)
             \o <<" seems to already exist with code? This might indicate an issue.">>
        ELSE WithReason(<<"Failed to deploy contract to ">> \o ShowId(nearAccountId)
                        \o <<".">>, e),
        e)

\* 10. view_function
RECURSIVE B64Encode(_)
\* Buffer.prototype.toString('base64')
B64Encode(b) ==
    LET ch(v) == B64Alphabet[v + 1]
    IN IF b = <<>> THEN <<>>
       ELSE IF Len(b) = 1
       THEN <<ch(b[1] \div 4), ch((b[1] % 4) * 16), "=", "=">>
       ELSE IF Len(b) = 2
       THEN <<ch(b[1] \div 4), ch((b[1] % 4) * 16 + b[2] \div 16), ch((b[2] % 16) * 4), "=">>
       ELSE <<ch(b[1] \div 4), ch((b[1] % 4) * 16 + b[2] \div 16),
              ch((b[2] % 16) * 4 + b[3] \div 64), ch(b[3] % 64)>>
            \o B64Encode(SubSeq(b, 4, Len(b)))

viewCallOp(r, encoded) ==
    IF ~encoded.ok THEN encoded
    ELSE Ok([NoOp EXCEPT !.method = "query", !.requestType = "call_function",
                         !.accountId = r.contractId, !.methodName = r.methodName,
                         !.argsBase64 = B64Encode(encoded.val)])

view_function_try(r) == viewCallOp(r, encodeArgs(ArgsOrEmpty(r)))

\* resultValue of view_function: "[No return value]" unless result.result holds
\* bytes, and then their text through DecodeReturned
viewResultValue(bytes) ==
    IF bytes # <<>> THEN DecodeReturned(BufferToString(bytes))
    ELSE JStr(<<"[No return value]">>)

view_function_then(r, res) ==
    Ok(<<"Result of calling ">> \o r.methodName \o <<" on ">> \o r.contractId \o <<": ">>
       \o ShowValue(viewResultValue(res.bytes)))

view_function_catch(r, e) ==
    WithContractError(
        IF e.type = "AccountDoesNotExist"
        THEN AccountDoesNotExistText(<<"Contract account ">>, r.contractId)
        ELSE IF e.type = "CONTRACT_CODE_NOT_FOUND" \/ e.causeName = "CONTRACT_CODE_NOT_FOUND"
        THEN <<"Account ">> \o r.contractId \o <<" does not have a contract deployed.">>
        ELSE IF e.type = "METHOD_NOT_FOUND" \/ e.causeName = "METHOD_NOT_FOUND"
        THEN <<"Method \"">> \o r.methodName \o <<"\" not found on contract ">>
             \o r.contractId \o <<".">>
        ELSE WithReason(<<"Failed to view function ">> \o r.methodName \o <<" on ">>
                        \o r.contractId \o <<".">>, e),
        e)

\* 11. get_access_keys
get_access_keys_try(r) == Ok([NoOp EXCEPT !.method = "getAccessKeys"])

FormatKey(key) ==
    <<"Public Key: ">> \o key.public_key \o <<"\n  Nonce: ">> \o key.nonce \o <<"\n">>
    \o (IF key.permission = "FullAccess"
        THEN <<"  Permission: FullAccess">>
        ELSE <<"  Permission: FunctionCall\n    Receiver: ">> \o key.receiver_id
             \o <<"\n    Methods: ">>
             \o (IF key.method_names # <<>> THEN JoinWith(key.method_names, <<", ">>)
                 ELSE <<"[Any]">>)
             \o <<"\n    Allowance: ">>
             \o (IF key.allowance # None /\ key.allowance[1] # <<>>
                 THEN formatNear(key.allowance[1]) \o <<" NEAR">>
                 ELSE <<"Unlimited">>))

get_access_keys_then(r, res) ==
    IF res.keys = <<>>
    THEN Ok(<<"Account ">> \o ShowId(nearAccountId) \o <<" has no access keys.">>)
    ELSE Ok(<<"Access keys for ">> \o ShowId(nearAccountId) \o <<":\n">>
            \o JoinWith([i \in 1..Len(res.keys) |-> FormatKey(res.keys[i])], <<"\n---\n">>))

\* the message is interpolated without a test: an absent one prints "undefined"
get_access_keys_catch(r, e) ==
    <<"Failed to fetch access keys for ">> \o ShowId(nearAccountId) \o <<". Reason: ">>
    \o (IF e.message = None THEN <<"undefined">> ELSE e.message[1])

\* 12. add_full_access_key
addFullKeyOp(pubKey) ==
    IF ~pubKey.ok THEN pubKey
    ELSE Ok([NoOp EXCEPT !.method = "addKey", !.publicKey = pubKey.val])

add_full_access_key_try(r) == addFullKeyOp(PublicKeyFromString(r.publicKey))

add_full_access_key_then(r, res) ==
    Ok(<<"Successfully added full access key ">> \o r.publicKey \o <<" to ">>
       \o ShowId(nearAccountId) \o <<". Transaction hash: ">> \o res.hash)

KeyAlreadyExistsText(r) ==
    <<"Public key ">> \o r.publicKey \o <<" already exists for account ">>
    \o ShowId(nearAccountId) \o <<".">>

add_full_access_key_catch(r, e) ==
    IF e.type = "AddKeyAlreadyExists" THEN KeyAlreadyExistsText(r)
    ELSE WithReason(<<"Failed to add full access key ">> \o r.publicKey \o <<" to ">>
                    \o ShowId(nearAccountId) \o <<".">>, e)

\* 13. add_function_call_key
\* the addKey call once the key is parsed and the allowance converted
addFunctionCallKeyOp(r, pubKey, allowance) ==
    IF ~pubKey.ok THEN pubKey
    ELSE IF ~allowance.ok THEN allowance
    ELSE Ok([NoOp EXCEPT !.method = "addKey", !.publicKey = pubKey.val,
                         !.accountId = r.contractId,
                         !.methodNames = IF r.methodNames = None THEN <<>>
                                         ELSE r.methodNames[1],
                         !.allowance = IF allowance.val = <<>> THEN None
                                       ELSE Some(allowance.val)])

add_function_call_key_try(r) ==
    addFunctionCallKeyOp(r, PublicKeyFromString(r.publicKey),
        IF r.allowanceNear # None /\ r.allowanceNear[1] # <<>>
        THEN yoctoOf(r.allowanceNear[1]) ELSE Ok(<<>>))

add_function_call_key_then(r, res) ==
    Ok(<<"Successfully added function call access key ">> \o r.publicKey \o <<" to ">>
       \o ShowId(nearAccountId) \o <<" for contract ">> \o r.contractId
       \o <<". Transaction hash: ">> \o res.hash)

add_function_call_key_catch(r, e) ==
    IF e.type = "AddKeyAlreadyExists" THEN KeyAlreadyExistsText(r)
    ELSE WithReason(<<"Failed to add function call key ">> \o r.publicKey \o <<" to ">>
                    \o ShowId(nearAccountId) \o <<".">>, e)

\* 14. delete_access_key
deleteKeyOp(pubKey) ==
    IF ~pubKey.ok THEN pubKey
    ELSE Ok([NoOp EXCEPT !.method = "deleteKey", !.publicKey = pubKey.val])

delete_access_key_try(r) == deleteKeyOp(PublicKeyFromString(r.publicKey))

delete_access_key_then(r, res) ==
    Ok(<<"Successfully deleted access key ">> \o r.publicKey \o <<" from ">>
       \o ShowId(nearAccountId) \o <<". Transaction hash: ">> \o res.hash)

delete_access_key_catch(r, e) ==
    IF e.type = "DeleteKeyDoesNotExist"
    THEN <<"Public key ">> \o r.publicKey \o <<" does not exist for account ">>
         \o ShowId(nearAccountId) \o <<".">>
    ELSE WithReason(<<"Failed to delete access key ">> \o r.publicKey \o <<" from ">>
                    \o ShowId(nearAccountId) \o <<".">>, e)

\* 15. verify_signature: no ledger call.  verdict is what pubKey.verify does with
\* the decoded bytes: "valid", "invalid", or "throws" (a signature of the wrong size)
verifyWith(r, verdict, signatureBytes, pubKey) ==
    IF ~signatureBytes.ok THEN signatureBytes
    ELSE IF ~pubKey.ok THEN pubKey
    ELSE IF verdict = "throws" THEN Throw(JsError(<<"bad signature size">>))
    ELSE Ok(<<"Signature verification result for public key ">> \o r.publicKey
            \o <<": ">> \o (IF verdict = "valid" THEN <<"Valid">> ELSE <<"Invalid">>))

verify_signature_run(r, verdict) ==
    verifyWith(r, verdict, decodeBase64(r.signatureBase64),
               PublicKeyFromString(r.publicKey))

verify_signature_catch(r, e) ==
    WithReason(<<"Failed to verify signature for public key ">> \o r.publicKey \o <<".">>, e)

-----------------------------------------------------------------------------
(* The handlers by tool name *)

Tools ==
    {"get_account_balance", "view_account_state", "get_account_details",
     "create_sub_account", "delete_account", "send_tokens", "call_function",
     "batch_actions", "deploy_contract", "view_function", "get_access_keys",
     "add_full_access_key", "add_function_call_key", "delete_access_key",
     "verify_signature"}

HandlerTry(r, eid) ==
    CASE r.tool = "get_account_balance" -> get_account_balance_try(r)
      [] r.tool = "view_account_state" -> view_account_state_try(r)
      [] r.tool = "get_account_details" -> get_account_details_try(r)
      [] r.tool = "create_sub_account" -> create_sub_account_try(r, eid)
      [] r.tool = "delete_account" -> delete_account_try(r)
      [] r.tool = "send_tokens" -> send_tokens_try(r)
      [] r.tool = "call_function" -> call_function_try(r)
      [] r.tool = "batch_actions" -> batch_actions_try(r, eid)
      [] r.tool = "deploy_contract" -> deploy_contract_try(r)
      [] r.tool = "view_function" -> view_function_try(r)
      [] r.tool = "get_access_keys" -> get_access_keys_try(r)
      [] r.tool = "add_full_access_key" -> add_full_access_key_try(r)
      [] r.tool = "add_function_call_key" -> add_function_call_key_try(r)
      [] r.tool = "delete_access_key" -> delete_access_key_try(r)

HandlerThen(r, eid, res) ==
    CASE r.tool = "get_account_balance" -> get_account_balance_then(r, res)
      [] r.tool = "view_account_state" -> view_account_state_then(r, res)
      [] r.tool = "get_account_details" -> get_account_details_then(r, res)
      [] r.tool = "create_sub_account" -> create_sub_account_then(r, eid, res)
      [] r.tool = "delete_account" -> delete_account_then(r, res)
      [] r.tool = "send_tokens" -> send_tokens_then(r, res)
      [] r.tool = "call_function" -> call_function_then(r, res)
      [] r.tool = "batch_actions" -> batch_actions_then(r, eid, res)
      [] r.tool = "deploy_contract" -> deploy_contract_then(r, res)
      [] r.tool = "view_function" -> view_function_then(r, res)
      [] r.tool = "get_access_keys" -> get_access_keys_then(r, res)
      [] r.tool = "add_full_access_key" -> add_full_access_key_then(r, res)
      [] r.tool = "add_function_call_key" -> add_function_call_key_then(r, res)
      [] r.tool = "delete_access_key" -> delete_access_key_then(r, res)

\* the message the tool's catch block builds for a caught error
HandlerCatch(r, eid, e) ==
    CASE r.tool = "get_account_balance" -> get_account_balance_catch(r, e)
      [] r.tool = "view_account_state" -> view_account_state_catch(r, e)
      [] r.tool = "get_account_details" -> get_account_details_catch(r, e)
      [] r.tool = "create_sub_account" -> create_sub_account_catch(r, eid, e)
      [] r.tool = "delete_account" -> delete_account_catch(r, e)
      [] r.tool = "send_tokens" -> send_tokens_catch(r, e)
      [] r.tool = "call_function" -> call_function_catch(r, e)
      [] r.tool = "batch_actions" -> batch_actions_catch(r, eid, e)
      [] r.tool = "deploy_contract" -> deploy_contract_catch(r, e)
      [] r.tool = "view_function" -> view_function_catch(r, e)
      [] r.tool = "get_access_keys" -> get_access_keys_catch(r, e)
      [] r.tool = "add_full_access_key" -> add_full_access_key_catch(r, e)
      [] r.tool = "add_function_call_key" -> add_function_call_key_catch(r, e)
      [] r.tool = "delete_access_key" -> delete_access_key_catch(r, e)
      [] r.tool = "verify_signature" -> verify_signature_catch(r, e)

\* how a handler ends: the blocks it returns and whether a failure left it
Returned(text) == [blocks |-> <<SuccessBlock(text)>>, escaped |-> FALSE]

\* variant: a handler without the catch block
Uncaught(r, eid, e) == [blocks |-> <<>>, escaped |-> TRUE]

\* every handler's body is one try block whose catch returns an error block
Caught(r, eid, e) == [blocks |-> <<ErrorBlock(HandlerCatch(r, eid, e))>>, escaped |-> FALSE]

\* variant: the array schema without `.min(1)`
SchemaWithoutMin(r) ==
    r.tool = "batch_actions" =>
        \A i \in 1..Len(r.actions) : r.actions[i].type \in ActionTypes

\* the schema the transport validates a request against before it calls the
\* handler: batch_actions needs at least one action, each of a known type
SchemaAccepts(r) ==
    r.tool = "batch_actions" =>
        /\ Len(r.actions) >= 1
        /\ \A i \in 1..Len(r.actions) : r.actions[i].type \in ActionTypes

-----------------------------------------------------------------------------
(* Inputs: the requests a client sends and the answers the ledger gives *)

GoodKey == <<"ed25519", ":", "KeyA">>
BadKey == <<"rsa", ":", "KeyA">>
Alice == <<"alice.testnet">>
Bob == <<"bob.testnet">>
Counter == <<"counter.testnet">>
Increase == <<"increase">>
Wasm == <<"A", "G", "F", "z", "b", "Q", "=", "=">>
ArgsN1 == JObj(<<[k |-> <<"n">>, n |-> <<"1">>]>>)

FunctionCallAction(args, gas, deposit) ==
    [type |-> "FunctionCall", contractId |-> Counter, methodName |-> Increase,
     args |-> args, gasTeras |-> gas, depositNear |-> deposit]

\* the abstract actions a batch is drawn from: every variant, well-formed and
\* malformed amounts, gas and keys, and one action of no known type
ActionSamples ==
    {[type |-> "CreateAccount"],
     [type |-> "DeployContract", wasmBase64 |-> Wasm],
     FunctionCallAction(None, None, None),
     FunctionCallAction(Some(ArgsN1), Some(<<"5">>), Some(<<"0", ".", "1">>)),
     FunctionCallAction(None, Some(<<"a", "b", "c">>), None),
     [type |-> "Transfer", depositNear |-> Some(<<"0", ".", "1">>)],
     [type |-> "Transfer", depositNear |-> Some(<<"1", ".", "2", ".", "3">>)],
     [type |-> "Transfer", depositNear |-> Some(<<"a", "b", "c">>)],
     [type |-> "Stake", stakeYocto |-> <<"1", "0", "0", "0">>, publicKey |-> GoodKey],
     [type |-> "AddKey", publicKey |-> GoodKey, accessKey |-> [permission |-> "FullAccess"]],
     [type |-> "AddKey", publicKey |-> GoodKey,
      accessKey |-> [permission |-> "FunctionCall", receiverId |-> Counter,
                     methodNames |-> <<Increase, <<"decrease">>>>,
                     allowanceNear |-> Some(<<"0", ".", "2", "5">>)]],
     [type |-> "AddKey", publicKey |-> GoodKey,
      accessKey |-> [permission |-> "FunctionCall", receiverId |-> Counter,
                     methodNames |-> <<>>, allowanceNear |-> None]],
     [type |-> "DeleteKey", publicKey |-> GoodKey],
     [type |-> "DeleteKey", publicKey |-> BadKey],
     [type |-> "DeleteAccount", beneficiaryId |-> Bob],
     [type |-> "Mint"]}

BatchRequests ==
    {[tool |-> "batch_actions", receiverId |-> rid, actions |-> acts] :
        rid \in {<<>>, Bob}, acts \in SeqsOf(ActionSamples, 0, MaxActions)}

Amounts == {<<"0", ".", "5">>, <<"a", "b", "c">>, <<"1", ".", "2", ".", "3">>, <<>>}

OtherRequests ==
    {[tool |-> "get_account_balance", accountId |-> a] : a \in {Alice, ServerAccountId}}
    \cup {[tool |-> "view_account_state", accountId |-> Alice, prefix_base64 |-> p] :
            p \in {None, Some(<<"a", "Q", "=", "=">>)}}
    \cup {[tool |-> "get_account_details", accountId |-> Alice]}
    \cup {[tool |-> "create_sub_account", newAccountIdSuffix |-> <<"sub">>,
           newAccountPublicKey |-> k, initialBalanceNear |-> b] :
            k \in {GoodKey, BadKey}, b \in {<<"0", ".", "5">>, <<"1", ".", "2", ".", "3">>}}
    \cup {[tool |-> "delete_account", beneficiaryId |-> Bob]}
    \cup {[tool |-> "send_tokens", receiverId |-> Bob, amountNear |-> a] : a \in Amounts}
    \cup {[tool |-> "call_function", contractId |-> Counter, methodName |-> Increase,
           args |-> a, gasTeras |-> g, attachedDepositNear |-> d] :
            a \in {None, Some(ArgsN1)}, g \in {None, Some(<<"a", "b", "c">>)},
            d \in {None, Some(<<"0", ".", "1">>)}}
    \cup {[tool |-> "deploy_contract", wasmBase64 |-> w] : w \in {Wasm, <<"!", "!">>}}
    \cup {[tool |-> "view_function", contractId |-> Counter, methodName |-> <<"get_num">>,
           args |-> a] : a \in {None, Some(ArgsN1)}}
    \cup {[tool |-> "get_access_keys"]}
    \cup {[tool |-> "add_full_access_key", publicKey |-> k] : k \in {GoodKey, BadKey}}
    \cup {[tool |-> "add_function_call_key", publicKey |-> GoodKey, contractId |-> Counter,
           methodNames |-> m, allowanceNear |-> a] :
            m \in {None, Some(<<Increase>>)}, a \in {None, Some(<<"0", ".", "2", "5">>)}}
    \cup {[tool |-> "delete_access_key", publicKey |-> k] : k \in {GoodKey, BadKey}}

VerifyRequests ==
    {[tool |-> "verify_signature", message |-> <<"hello">>,
      signatureBase64 |-> <<"c", "2", "l", "n">>, publicKey |-> k] : k \in {GoodKey, BadKey}}

Verdicts == {"valid", "invalid", "throws"}

Requests == BatchRequests \cup OtherRequests

\* error.type values: the ones some catch block tests for, one that none tests
\* for, and "" for an error without a type
ErrorTypes ==
    {"", "AccountDoesNotExist", "AccountAlreadyExists", "CreateAccountNotAllowed",
     "DeleteAccountHasEnoughBalance", "DeleteAccountHasRent", "NotEnoughBalance",
     "MethodNotFound", "ContractSizeExceeded", "AddKeyAlreadyExists",
     "DeleteKeyDoesNotExist", "CONTRACT_CODE_NOT_FOUND", "METHOD_NOT_FOUND",
     "TimeoutError"}

CauseNames == {"", "CONTRACT_CODE_NOT_FOUND", "METHOD_NOT_FOUND"}

LedgerMessage == <<"ledger failure text">>
PanicText == <<"Smart contract panicked: overflow">>

\* the errors a ledger call rejects with: every type with every cause name,
\* some of them also with the text of a contract panic, and a bare error
\* without a message and with the empty message
LedgerErrors ==
    {[type |-> t, causeName |-> c, message |-> Some(LedgerMessage), execError |-> <<>>] :
        t \in ErrorTypes, c \in CauseNames}
    \cup {[type |-> t, causeName |-> c, message |-> Some(LedgerMessage),
           execError |-> PanicText] :
            t \in {"", "AccountDoesNotExist", "MethodNotFound"}, c \in CauseNames}
    \cup {[type |-> "", causeName |-> "", message |-> m, execError |-> <<>>] :
            m \in {None, Some(<<>>)}}

TxHash == <<"9xTxHash">>

\* status.SuccessValue of a call: absent, "" (no payload) and the base64 of
\* 5, {"a":1}, "hi", null and the non-JSON texts hi and {a
SuccessValues ==
    {None,
     Some(<<>>),
     Some(<<"N", "Q", "=", "=">>),
     Some(<<"e", "y", "J", "h", "I", "j", "o", "x", "f", "Q", "=", "=">>),
     Some(<<"I", "m", "h", "p", "I", "g", "=", "=">>),
     Some(<<"b", "n", "V", "s", "b", "A", "=", "=">>),
     Some(<<"a", "G", "k", "=">>),
     Some(<<"e", "2", "E", "=">>)}

Yocto1 == <<"1">> \o Repeat("0", NEAR_NOMINATION_EXP)

SampleKeys ==
    <<[public_key |-> GoodKey, nonce |-> <<"7">>, permission |-> "FullAccess",
       receiver_id |-> <<>>, method_names |-> <<>>, allowance |-> None],
      [public_key |-> <<"ed25519", ":", "KeyB">>, nonce |-> <<"0">>,
       permission |-> "FunctionCall", receiver_id |-> Counter, method_names |-> <<>>,
       allowance |-> Some(Yocto1)]>>

\* what the ledger can resolve request r's operation to
LedgerResults(r) ==
    CASE r.tool = "call_function" ->
            {[NoResult EXCEPT !.hash = TxHash, !.successValue = v] : v \in SuccessValues}
            \cup {[NoResult EXCEPT !.hash = TxHash, !.failure = Some(PanicText)]}
      [] r.tool = "get_account_balance" ->
            {[NoResult EXCEPT !.amounts = <<Yocto1, <<"0">>, <<"5">> \o Repeat("0", 20), Yocto1>>]}
      [] r.tool = "get_account_details" ->
            {[NoResult EXCEPT !.amounts = <<Yocto1, <<"0">>>>, !.storage = <<"182">>,
                              !.codeHash = <<"11111111111111111111111111111111">>]}
      [] r.tool = "view_account_state" ->
            {NoResult,
             [NoResult EXCEPT !.values = <<[key |-> <<"a", "Q", "=", "=">>,
                                           value |-> <<"N", "Q", "=", "=">>]>>]}
      [] r.tool = "view_function" ->
            {NoResult, [NoResult EXCEPT !.bytes = <<53>>],
             [NoResult EXCEPT !.bytes = <<53, 10>>],
             [NoResult EXCEPT !.bytes = <<104, 105>>],
             [NoResult EXCEPT !.bytes = <<123, 97>>]}
      [] r.tool = "get_access_keys" -> {NoResult, [NoResult EXCEPT !.keys = SampleKeys]}
      [] OTHER -> {[NoResult EXCEPT !.hash = TxHash]}

-----------------------------------------------------------------------------
(* The state machine *)

Calls == DOMAIN pc

NoRequest == [tool |-> ""]

\* nothing dispatched, nothing connected, main() not yet run
InitWith(callIds) ==
    /\ mainPc = "start"
    /\ nearConnection = <<>>
    /\ nearAccount = <<>>
    /\ nearProvider = <<>>
    /\ nearAccountId = Null
    /\ pc = [c \in callIds |-> "idle"]
    /\ req = [c \in callIds |-> NoRequest]
    /\ ledger = [c \in callIds |-> <<>>]
    /\ translated = [c \in callIds |-> 0]
    /\ reply = [c \in callIds |-> <<>>]
    /\ blocks = [c \in callIds |-> <<>>]
    /\ escaped = [c \in callIds |-> FALSE]
    /\ entryAccountId = [c \in callIds |-> Null]

helperVars == <<helperPc, helperArg, helperOut>>

\* the server: no helper is applied on its own
Init ==
    /\ InitWith({1})
    /\ helperPc = "none"
    /\ helperArg = <<>>
    /\ helperOut = <<>>

connVars == <<nearConnection, nearAccount, nearProvider, nearAccountId>>
callVars == <<pc, req, ledger, translated, reply, blocks, escaped, entryAccountId>>

\* setupNear's guard: `if (nearAccount && nearProvider) return`
Initialised == nearAccount # <<>> /\ nearProvider # <<>>

\* setupNear's first assignment, once `await connect(config)` has resolved
SetupConnection == nearConnection' = <<"near-connection">>

\* setupNear's assignments between `await connect(config)` and its last
\* await, with the account id that the wallet reports
SetupConnects(id) ==
    /\ SetupConnection
    /\ nearAccountId' = id

\* variant: the provider handle is not assigned
SetupAccountOnly ==
    /\ nearAccount' = <<"account-handle">>
    /\ nearProvider' = nearProvider

\* setupNear's assignments after its last await: the two handles, one after
\* the other with no await in between
SetupAccount ==
    /\ nearAccount' = <<"account-handle">>
    /\ nearProvider' = <<"provider-handle">>

\* the awaits of setupNear's initialization body
SetupBody == {"setKey", "connect", "account"}

\* who runs setupNear: main() or the handler of a call
Main == 0
Runners == {Main} \cup Calls

\* runner r waits at position p; a handler runs only while the process serves
At(r, p) == IF r = Main THEN mainPc = p ELSE mainPc = "serving" /\ pc[r] = p
MoveTo(r, p) ==
    IF r = Main THEN mainPc' = p /\ pc' = pc
    ELSE pc' = [pc EXCEPT ![r] = p] /\ mainPc' = mainPc

\* where runner r continues once `await setupNear()` has returned: main() at
\* `await server.connect(transport)`, a handler at its try block
AfterSetup(r) == IF r = Main THEN "transport" ELSE "setup"

\* the call of setupNear by runner r, up to its first await: it returns at
\* once when already initialised, and otherwise runs to `await keyStore.setKey`
setupNear(r) == IF Initialised THEN AfterSetup(r) ELSE "setKey"

\* main() is called and runs up to the first await of `await setupNear()`
MainStarts ==
    /\ mainPc = "start"
    /\ MoveTo(Main, setupNear(Main))
    /\ UNCHANGED <<connVars, req, ledger, translated, reply, blocks, escaped,
                   entryAccountId, helperVars>>

\* setKey has resolved: setupNear runs up to `await connect(config)`
KeyStored(r) ==
    /\ At(r, "setKey")
    /\ MoveTo(r, "connect")
    /\ UNCHANGED <<connVars, req, ledger, translated, reply, blocks, escaped,
                   entryAccountId, helperVars>>

\* connect has resolved: setupNear assigns the connection and the account id
\* and runs up to `await nearConnection.account(nearAccountId)`
Connected(r, id) ==
    /\ At(r, "connect")
    /\ SetupConnects(id)
    /\ MoveTo(r, "account")
    /\ UNCHANGED <<nearAccount, nearProvider, req, ledger, translated, reply, blocks,
                   escaped, entryAccountId, helperVars>>

\* account() has resolved: setupNear assigns the two handles and returns
AccountLoaded(r) ==
    /\ At(r, "account")
    /\ SetupAccount
    /\ MoveTo(r, AfterSetup(r))
    /\ UNCHANGED <<nearConnection, nearAccountId, req, ledger, translated, reply,
                   blocks, escaped, entryAccountId, helperVars>>

\* connect has resolved and the connection is assigned, and then a step before
\* the assignment of the account id throws (the wallet's constructor, the
\* signer, getAccountId): the catch block calls process.exit(1) with the
\* connection assigned and nothing else
WalletFails(r) ==
    /\ At(r, "connect")
    /\ SetupConnection
    /\ mainPc' = "exited"
    /\ UNCHANGED <<nearAccount, nearProvider, nearAccountId, callVars, helperVars>>

\* the start of setupNear's try block throws or one of its awaits rejects: the
\* catch block calls process.exit(1), and what was assigned stays assigned
SetupFails(r) ==
    /\ \E p \in {"start"} \cup SetupBody : At(r, p)
    /\ mainPc' = "exited"
    /\ UNCHANGED <<connVars, callVars, helperVars>>

\* main(): server.connect(transport) has resolved and the server serves calls
MainTransportConnects ==
    /\ mainPc = "transport"
    /\ mainPc' = "serving"
    /\ UNCHANGED <<connVars, callVars, helperVars>>

\* main(): server.connect(transport) rejects, and the catch block of main()
\* calls process.exit(1) with the handles assigned
MainTransportFails ==
    /\ mainPc = "transport"
    /\ mainPc' = "exited"
    /\ UNCHANGED <<connVars, callVars, helperVars>>

\* variant: calls are taken before main() has finished setupNear
IdleAtOnce(c) == pc[c] = "idle"

\* the server is connected and call c has not been received yet
Idle(c) == mainPc = "serving" /\ pc[c] = "idle"

\* variant: answers are handled in the order of the calls, so that an answer
\* waits for every earlier call's outstanding operation
AwaitingInOrder(c) ==
    mainPc = "serving" /\ pc[c] = "awaiting" /\ \A d \in Calls : d < c => pc[d] # "awaiting"

\* the handler of call c waits for its ledger operation
Awaiting(c) == mainPc = "serving" /\ pc[c] = "awaiting"

\* the transport refuses a request the tool's schema does not accept; the
\* handler is not called
RejectRequest(c, r) ==
    /\ Idle(c)
    /\ ~SchemaAccepts(r)
    /\ pc' = [pc EXCEPT ![c] = "rejected"]
    /\ req' = [req EXCEPT ![c] = r]
    /\ UNCHANGED <<mainPc, connVars, ledger, translated, reply, blocks, escaped,
                   entryAccountId, helperVars>>

\* the transport calls the handler, which runs up to the first await of
\* `await setupNear()`
InvokeHandler(c, r) ==
    /\ Idle(c)
    /\ SchemaAccepts(r)
    /\ pc' = [pc EXCEPT ![c] = setupNear(c)]
    /\ req' = [req EXCEPT ![c] = r]
    /\ entryAccountId' = [entryAccountId EXCEPT ![c] = nearAccountId]
    /\ UNCHANGED <<mainPc, connVars, ledger, translated, reply, blocks, escaped, helperVars>>

\* getAccount() and getProvider()
getAccount ==
    IF nearAccount # <<>> THEN Ok(nearAccount)
    ELSE Throw(JsError(<<"NEAR Account not initialized">>))
getProvider ==
    IF nearProvider # <<>> THEN Ok(nearProvider)
    ELSE Throw(JsError(<<"NEAR Provider not initialized">>))

\* the handle a tool's ledger operation is a method of
HandleOf(r) ==
    IF r.tool \in {"view_account_state", "get_account_details", "view_function"}
    THEN getProvider
    ELSE getAccount

\* the local steps of a try block, then the read of the handle its ledger
\* operation is called on.  (BigInt() of a converted amount is an argument of
\* that call and would come after the read; the handle is read last here, which
\* differs only for a handle that is not set.)
WithHandle(handle, run) == IF run.ok /\ ~handle.ok THEN handle ELSE run
Attempt(r, eid) == WithHandle(HandleOf(r), HandlerTry(r, eid))

\* the end of a try block: its text returned in a success block, or its throw
\* handed to the catch block
Outcome(r, eid, run) == IF run.ok THEN Returned(run.val) ELSE Caught(r, eid, run.err)

\* the handler of call c returns
Ends(c, end) ==
    /\ blocks' = [blocks EXCEPT ![c] = @ \o end.blocks]
    /\ escaped' = [escaped EXCEPT ![c] = end.escaped]

\* verify_signature has no await: the call runs to its block at once
InvokeVerifySignature(c, r, verdict) ==
    /\ Idle(c)
    /\ Ends(c, Outcome(r, nearAccountId, verify_signature_run(r, verdict)))
    /\ pc' = [pc EXCEPT ![c] = "done"]
    /\ req' = [req EXCEPT ![c] = r]
    /\ entryAccountId' = [entryAccountId EXCEPT ![c] = nearAccountId]
    /\ UNCHANGED <<mainPc, connVars, ledger, translated, reply, helperVars>>

TranslatedBy(r) == IF r.tool = "batch_actions" THEN TranslateCalls(r.actions) ELSE 0

\* after setupNear: a local step of the try block throws and the catch block
\* returns the error block; no ledger operation is issued
TryThrows(c) ==
    /\ mainPc = "serving"
    /\ pc[c] = "setup"
    /\ ~Attempt(req[c], entryAccountId[c]).ok
    /\ Ends(c, Outcome(req[c], entryAccountId[c], Attempt(req[c], entryAccountId[c])))
    /\ translated' = [translated EXCEPT ![c] = TranslatedBy(req[c])]
    /\ pc' = [pc EXCEPT ![c] = "done"]
    /\ UNCHANGED <<mainPc, connVars, req, ledger, reply, entryAccountId, helperVars>>

\* variant: a handler issues its ledger operation only when no other call's
\* operation is outstanding
IssueLedgerCallSerialized(c) ==
    /\ mainPc = "serving"
    /\ pc[c] = "setup"
    /\ \A d \in Calls \ {c} : pc[d] # "awaiting"
    /\ Attempt(req[c], entryAccountId[c]).ok
    /\ ledger' = [ledger EXCEPT ![c] = Append(@, Attempt(req[c], entryAccountId[c]).val)]
    /\ translated' = [translated EXCEPT ![c] = TranslatedBy(req[c])]
    /\ pc' = [pc EXCEPT ![c] = "awaiting"]
    /\ UNCHANGED <<mainPc, connVars, req, reply, blocks, escaped, entryAccountId,
                   helperVars>>

\* after setupNear: the local steps succeed and the handler issues its ledger
\* operation and waits for it
IssueLedgerCall(c) ==
    /\ mainPc = "serving"
    /\ pc[c] = "setup"
    /\ Attempt(req[c], entryAccountId[c]).ok
    /\ ledger' = [ledger EXCEPT ![c] = Append(@, Attempt(req[c], entryAccountId[c]).val)]
    /\ translated' = [translated EXCEPT ![c] = TranslatedBy(req[c])]
    /\ pc' = [pc EXCEPT ![c] = "awaiting"]
    /\ UNCHANGED <<mainPc, connVars, req, reply, blocks, escaped, entryAccountId,
                   helperVars>>

\* the ledger operation resolves and the rest of the try block runs
LedgerResolves(c, res) ==
    /\ Awaiting(c)
    /\ reply' = [reply EXCEPT ![c] = Some(Resolved(res))]
    /\ Ends(c, Outcome(req[c], entryAccountId[c],
                        HandlerThen(req[c], entryAccountId[c], res)))
    /\ pc' = [pc EXCEPT ![c] = "done"]
    /\ UNCHANGED <<mainPc, connVars, req, ledger, translated, entryAccountId, helperVars>>

\* variant: a rejected ledger operation is issued once more
LedgerRejectsRetrying(c, e) ==
    /\ Awaiting(c)
    /\ ledger' = [ledger EXCEPT ![c] = Append(@, @[1])]
    /\ UNCHANGED <<mainPc, connVars, pc, req, translated, reply, blocks, escaped,
                   entryAccountId, helperVars>>

\* the ledger operation rejects and the catch block runs
LedgerRejects(c, e) ==
    /\ Awaiting(c)
    /\ reply' = [reply EXCEPT ![c] = Some(Rejected(e))]
    /\ Ends(c, Caught(req[c], entryAccountId[c], e))
    /\ pc' = [pc EXCEPT ![c] = "done"]
    /\ UNCHANGED <<mainPc, connVars, req, ledger, translated, entryAccountId, helperVars>>

Next ==
    \/ MainStarts
    \/ \E r \in Runners : KeyStored(r)
    \/ \E r \in Runners, id \in WalletAccountIds : Connected(r, id)
    \/ \E r \in Runners : WalletFails(r)
    \/ \E r \in Runners : AccountLoaded(r)
    \/ \E r \in Runners : SetupFails(r)
    \/ MainTransportConnects
    \/ MainTransportFails
    \/ \E c \in Calls : Idle(c) /\ \E r \in Requests : RejectRequest(c, r)
    \/ \E c \in Calls : Idle(c) /\ \E r \in Requests : InvokeHandler(c, r)
    \/ \E c \in Calls : Idle(c) /\ \E r \in VerifyRequests, v \in Verdicts :
            InvokeVerifySignature(c, r, v)
    \/ \E c \in Calls : TryThrows(c)
    \/ \E c \in Calls : IssueLedgerCall(c)
    \/ \E c \in Calls : Awaiting(c) /\ \E res \in LedgerResults(req[c]) :
            LedgerResolves(c, res)
    \/ \E c \in Calls : Awaiting(c) /\ \E e \in LedgerErrors : LedgerRejects(c, e)

Spec == Init /\ [][Next]_vars

-----------------------------------------------------------------------------
(* The helpers applied on their own: parseNear and formatNear one after the   *)
(* other, the gas conversion of call_function and of a batch FunctionCall,    *)
(* and base64ByteLength, each on an argument drawn from a bounded set         *)

\* longest whole part and fraction of an amount, longest gas numeral and
\* longest base64 text
MaxWholeDigits == 4
MaxFracDigits == 6
MaxGasDigits == 3
MaxBase64Len == 5

\* numerals without a superfluous leading zero
WholeParts == {w \in SeqsOf({"0", "9"}, 1, MaxWholeDigits) : Len(w) = 1 \/ w[1] # "0"}
Fractions == SeqsOf({"0", "5"}, 1, MaxFracDigits)
\* non-negative decimal strings: a whole part alone or followed by "." and a fraction
DecimalStrings == WholeParts \cup {w \o <<".">> \o f : w \in WholeParts, f \in Fractions}
GasNumerals == SeqsOf({"0", "3", "9"}, 1, MaxGasDigits)
Base64Texts == SeqsOf({"A", "="}, 0, MaxBase64Len)

HelperArgs ==
    {[helper |-> "parseNear", text |-> d] : d \in DecimalStrings}
    \cup {[helper |-> "gasTeras", text |-> g] : g \in GasNumerals}
    \cup {[helper |-> "base64ByteLength", text |-> b] : b \in Base64Texts}

\* a call_function request and a batch FunctionCall action that name their gas
\* and leave the other optional fields out
GasRequest(g) ==
    [tool |-> "call_function", contractId |-> Counter, methodName |-> Increase,
     args |-> None, gasTeras |-> Some(g), attachedDepositNear |-> None]
GasAction(g) == FunctionCallAction(None, Some(g), None)

serverVars == <<mainPc, connVars, callVars>>

HelperInit ==
    /\ InitWith({1})
    /\ helperPc = "ready"
    /\ helperArg \in HelperArgs
    /\ helperOut = <<>>

\* parseNear(amountString)
ApplyParseNear ==
    /\ helperPc = "ready"
    /\ helperArg.helper = "parseNear"
    /\ helperOut' = <<parseNear(helperArg.text)>>
    /\ helperPc' = "parseNear"
    /\ UNCHANGED <<helperArg, serverVars>>

\* formatNear applied to what parseNear returned
ApplyFormatNear ==
    /\ helperPc = "parseNear"
    /\ helperOut[1].ok
    /\ helperOut' = Append(helperOut, formatNear(helperOut[1].val))
    /\ helperPc' = "formatNear"
    /\ UNCHANGED <<helperArg, serverVars>>

\* the local steps of call_function with the gas as given
ApplyCallFunctionGas ==
    /\ helperPc = "ready"
    /\ helperArg.helper = "gasTeras"
    /\ helperOut' = <<call_function_try(GasRequest(helperArg.text))>>
    /\ helperPc' = "call_function"
    /\ UNCHANGED <<helperArg, serverVars>>

\* the FunctionCall branch of the batch translator with the gas as given
ApplyBatchGas ==
    /\ helperPc = "ready"
    /\ helperArg.helper = "gasTeras"
    /\ helperOut' = <<translate(GasAction(helperArg.text))>>
    /\ helperPc' = "FunctionCall"
    /\ UNCHANGED <<helperArg, serverVars>>

\* base64ByteLength(str): the number (in quarters) and the text it prints as
ApplyBase64ByteLength ==
    /\ helperPc = "ready"
    /\ helperArg.helper = "base64ByteLength"
    /\ helperOut' = <<base64ByteLengthQuarters(helperArg.text),
                      base64ByteLength(helperArg.text)>>
    /\ helperPc' = "base64ByteLength"
    /\ UNCHANGED <<helperArg, serverVars>>

HelperNext ==
    \/ ApplyParseNear
    \/ ApplyFormatNear
    \/ ApplyCallFunctionGas
    \/ ApplyBatchGas
    \/ ApplyBase64ByteLength

HelperSpec == HelperInit /\ [][HelperNext]_vars

-----------------------------------------------------------------------------
(* Several calls in flight: the transport hands each request to its handler   *)
(* as it arrives, and the handlers interleave at their awaits                 *)

MaxCalls == 2

\* mutating calls: an account deletion, key additions with a well-formed and
\* with a malformed key, and an empty batch
ConcurrentRequests ==
    {[tool |-> "delete_account", beneficiaryId |-> Bob]}
    \cup {[tool |-> "add_full_access_key", publicKey |-> k] : k \in {GoodKey, BadKey}}
    \cup {[tool |-> "batch_actions", receiverId |-> <<>>, actions |-> <<>>]}

ConcurrentErrors ==
    {[type |-> t, causeName |-> "", message |-> Some(LedgerMessage), execError |-> <<>>] :
        t \in {"", "NotEnoughBalance"}}

ConcurrentInit ==
    /\ InitWith(1..MaxCalls)
    /\ helperPc = "none"
    /\ helperArg = <<>>
    /\ helperOut = <<>>

\* the step of call c's handler that follows `await setupNear()`
HandlerStep(c) == TryThrows(c) \/ IssueLedgerCall(c)

\* the ledger answers call c's operation
LedgerAnswers(c) ==
    \/ Awaiting(c) /\ \E res \in LedgerResults(req[c]) : LedgerResolves(c, res)
    \/ Awaiting(c) /\ \E e \in ConcurrentErrors : LedgerRejects(c, e)

ConcurrentNext ==
    \/ MainStarts
    \/ \E r \in Runners : KeyStored(r)
    \/ \E r \in Runners, id \in WalletAccountIds : Connected(r, id)
    \/ \E r \in Runners : WalletFails(r)
    \/ \E r \in Runners : AccountLoaded(r)
    \/ \E r \in Runners : SetupFails(r)
    \/ MainTransportConnects
    \/ MainTransportFails
    \/ \E c \in Calls : Idle(c) /\ \E r \in ConcurrentRequests : RejectRequest(c, r)
    \/ \E c \in Calls : Idle(c) /\ \E r \in ConcurrentRequests : InvokeHandler(c, r)
    \/ \E c \in Calls : Idle(c) /\ \E r \in VerifyRequests, v \in Verdicts :
            InvokeVerifySignature(c, r, v)
    \/ \E c \in Calls : HandlerStep(c)
    \/ \E c \in Calls : LedgerAnswers(c)

ConcurrentSpec == ConcurrentInit /\ [][ConcurrentNext]_vars

\* the event loop runs every handler's continuation; the ledger answers every
\* call but the first, whose operation may stay outstanding for ever
ConcurrentFairSpec ==
    /\ ConcurrentSpec
    /\ \A c \in 1..MaxCalls : WF_vars(HandlerStep(c))
    /\ \A c \in 2..MaxCalls : WF_vars(LedgerAnswers(c))

-----------------------------------------------------------------------------
(* Properties of the handlers *)

Done(c) == pc[c] = "done"
IsBatch(c) == req[c].tool = "batch_actions"
\* the handler of call c is past the local steps of its try block
PastTranslation(c) == pc[c] \in {"awaiting", "done"}
LedgerFailed(c) == reply[c] # <<>> /\ ~reply[c][1].ok
LedgerSucceeded(c) == reply[c] # <<>> /\ reply[c][1].ok
FailureOf(c) == reply[c][1].err
OneErrorBlock(c) == Len(blocks[c]) = 1 /\ blocks[c][1].isError
OneSuccessBlock(c) == Len(blocks[c]) = 1 /\ ~blocks[c][1].isError
HasPiece(text, pieces) == \E i \in 1..Len(text) : text[i] \in pieces
\* the translation of each sample action
TranslationOf == [a \in ActionSamples |-> translate(a)]
AllTranslate(actions) == \A i \in 1..Len(actions) : TranslationOf[actions[i]].ok
BagOf(s) == [x \in Range(s) |-> Cardinality({i \in 1..Len(s) : s[i] = x})]

\* C1: a batch_actions call in which the translation of the action at some
\* position fails never calls signAndSendTransaction (nothing before or after
\* that position is sent), and when it has ended it has returned one error block.
C1_FailedTranslationSubmitsNothing ==
    \A c \in Calls :
        (IsBatch(c) /\ ~AllTranslate(req[c].actions))
        => /\ ledger[c] = <<>>
           /\ pc[c] # "awaiting"
           /\ (Done(c) => OneErrorBlock(c))

\* a two-action batch whose first action translates and whose second does not
\* has ended with an error block and an empty ledger log
C1_Witness ==
    \E c \in Calls :
        /\ IsBatch(c) /\ Done(c) /\ Len(req[c].actions) = 2
        /\ translate(req[c].actions[1]).ok /\ ~translate(req[c].actions[2]).ok
        /\ ledger[c] = <<>> /\ OneErrorBlock(c)

\* C2: a batch_actions call whose actions all translate calls
\* signAndSendTransaction exactly once, and that call carries every translated
\* native action, each as often as the request holds it; no handler issues a
\* second ledger call.
C2_OneSubmitWithAllActions ==
    \A c \in Calls :
        /\ Len(ledger[c]) <= 1
        /\ (IsBatch(c) /\ PastTranslation(c) /\ AllTranslate(req[c].actions))
           => /\ Len(ledger[c]) = 1
              /\ ledger[c][1].method = "signAndSendTransaction"
              /\ BagOf(ledger[c][1].actions)
                 = BagOf([i \in 1..Len(req[c].actions) |-> TranslationOf[req[c].actions[i]].val])

\* a two-action batch has been submitted once with two native actions and the
\* handler has returned its success block
C2_Witness ==
    \E c \in Calls :
        /\ IsBatch(c) /\ Done(c) /\ LedgerSucceeded(c) /\ Len(req[c].actions) = 2
        /\ Len(ledger[c]) = 1 /\ Len(ledger[c][1].actions) = 2
        /\ OneSuccessBlock(c)

\* the native kind each abstract action type is translated to
NativeKind(type) ==
    CASE type = "CreateAccount" -> "createAccount"
      [] type = "DeployContract" -> "deployContract"
      [] type = "FunctionCall" -> "functionCall"
      [] type = "Transfer" -> "transfer"
      [] type = "Stake" -> "stake"
      [] type = "AddKey" -> "addKey"
      [] type = "DeleteKey" -> "deleteKey"
      [] type = "DeleteAccount" -> "deleteAccount"

\* C3: the action list batch_actions submits is as long as the request's list,
\* and its i-th element is the translation of the request's i-th action.
C3_OrderPreserved ==
    \A c \in Calls : \A k \in 1..Len(ledger[c]) :
        IsBatch(c) =>
            /\ Len(ledger[c][k].actions) = Len(req[c].actions)
            /\ \A i \in 1..Len(req[c].actions) :
                  /\ ledger[c][k].actions[i].kind = NativeKind(req[c].actions[i].type)
                  /\ ledger[c][k].actions[i] = TranslationOf[req[c].actions[i]].val

\* a batch of a Transfer followed by a FunctionCall has been submitted as a
\* transfer followed by a functionCall
C3_Witness ==
    \E c \in Calls :
        /\ IsBatch(c) /\ Len(ledger[c]) = 1 /\ Len(req[c].actions) = 2
        /\ req[c].actions[1].type = "Transfer" /\ req[c].actions[2].type = "FunctionCall"
        /\ ledger[c][1].actions[1].kind = "transfer"
        /\ ledger[c][1].actions[2].kind = "functionCall"

\* C4: a handler never returns more than one block and no failure leaves it;
\* a handler that has ended has returned exactly one block, which is an error
\* block when a local step or the ledger call failed.
C4_OneBlockNothingEscapes ==
    \A c \in Calls :
        /\ ~escaped[c]
        /\ Len(blocks[c]) <= 1
        /\ (Done(c) => Len(blocks[c]) = 1)
        /\ (Done(c) /\ (LedgerFailed(c) \/ reply[c] = <<>>) /\ req[c].tool # "verify_signature"
            => OneErrorBlock(c))

\* a call_function call whose ledger call was rejected has ended with exactly
\* one error block
C4_Witness ==
    \E c \in Calls :
        /\ req[c].tool = "call_function" /\ Done(c) /\ LedgerFailed(c)
        /\ OneErrorBlock(c) /\ ~escaped[c]

\* C5: a batch_actions request with an empty action list is rejected: no action
\* is translated, no ledger call is made and the handler returns nothing.
C5_EmptyBatchRejected ==
    \A c \in Calls :
        (IsBatch(c) /\ req[c].actions = <<>>)
        => /\ pc[c] = "rejected"
           /\ translated[c] = 0
           /\ ledger[c] = <<>>
           /\ blocks[c] = <<>>

\* an empty batch has been sent and rejected
C5_Witness ==
    \E c \in Calls : IsBatch(c) /\ req[c].actions = <<>> /\ pc[c] = "rejected"

\* the literal pieces of the messages that classify an error
DoesNotExistPieces == {" does not exist on ", " (beneficiary) does not exist on "}
MethodNotFoundPieces == {"\" not found on contract "}

\* C6: for every tool, a ledger call that fails with error.type
\* AccountDoesNotExist ends in one error block whose message is the
\* 'account ... does not exist' message, whatever else the error carries.
C6_AccountDoesNotExistEveryTool ==
    \A c \in Calls :
        (Done(c) /\ LedgerFailed(c) /\ FailureOf(c).type = "AccountDoesNotExist")
        => /\ OneErrorBlock(c)
           /\ HasPiece(blocks[c][1].text, DoesNotExistPieces)

\* what the tool's catch block says of e when e carries no cause, and when it
\* carries neither type nor cause
ByTypeAlone(r, eid, e) == HandlerCatch(r, eid, [e EXCEPT !.causeName = ""])
ByFallback(r, eid, e) == HandlerCatch(r, eid, [e EXCEPT !.type = "", !.causeName = ""])
\* e.type is one the tool's catch block tests for
TypeInCatalog(r, eid, e) == e.type # "" /\ ByTypeAlone(r, eid, e) # ByFallback(r, eid, e)

\* C7: every catch block tests error.type first, error.cause.name next and falls
\* back last: an error whose type the handler knows is reported as that type
\* says, whatever cause name it carries; in particular a contract call failing
\* with type MethodNotFound and cause name CONTRACT_CODE_NOT_FOUND is reported
\* as a missing method.
C7_TypeBeforeCause ==
    \A c \in Calls :
        (Done(c) /\ LedgerFailed(c))
        => /\ TypeInCatalog(req[c], entryAccountId[c], FailureOf(c))
              => blocks[c][1].text = ByTypeAlone(req[c], entryAccountId[c], FailureOf(c))
           /\ (/\ req[c].tool \in {"call_function", "view_function"}
               /\ FailureOf(c).type = "MethodNotFound"
               /\ FailureOf(c).causeName = "CONTRACT_CODE_NOT_FOUND")
              => HasPiece(blocks[c][1].text, MethodNotFoundPieces)

\* the request is a contract call: call_function, view_function, or a batch
\* that holds a FunctionCall
IsContractCall(r) ==
    \/ r.tool \in {"call_function", "view_function"}
    \/ /\ r.tool = "batch_actions"
       /\ \E i \in 1..Len(r.actions) : r.actions[i].type = "FunctionCall"

\* C8: a contract call whose ledger call fails with no error.type and cause
\* name METHOD_NOT_FOUND ends in one error block with the 'Method ... not found
\* on contract ...' message.
C8_MethodNotFoundByCause ==
    \A c \in Calls :
        (/\ Done(c) /\ LedgerFailed(c) /\ IsContractCall(req[c])
         /\ FailureOf(c).type = "" /\ FailureOf(c).causeName = "METHOD_NOT_FOUND")
        => /\ OneErrorBlock(c)
           /\ HasPiece(blocks[c][1].text, MethodNotFoundPieces)

\* C9: whenever the caught error carries error.kind.ExecutionError, the message
\* of the returned error block contains that text, for every tool.
C9_ExecutionErrorAlwaysAppended ==
    \A c \in Calls :
        (Done(c) /\ LedgerFailed(c) /\ FailureOf(c).execError # <<>>)
        => /\ OneErrorBlock(c)
           /\ Contains(blocks[c][1].text, FailureOf(c).execError)

\* return payloads and the text the success block must show for them: the
\* base64 of 5, of {"a":1}, of "hi" and of null
PayloadCases ==
    {<<<<"N", "Q", "=", "=">>, <<"5">>>>,
     <<<<"e", "y", "J", "h", "I", "j", "o", "x", "f", "Q", "=", "=">>,
       <<"{", "\n", " ", " ", "\"", "a", "\"", ":", " ", "1", "\n", "}">>>>,
     <<<<"I", "m", "h", "p", "I", "g", "=", "=">>, <<"h", "i">>>>,
     <<<<"b", "n", "V", "s", "b", "A", "=", "=">>, <<"n", "u", "l", "l">>>>}

CallReport(r, shown, hash) ==
    <<"Successfully called ">> \o r.methodName \o <<" on ">> \o r.contractId
    \o <<". Result: ">> \o shown \o <<". Transaction hash: ">> \o hash

\* C10: a call_function whose ledger call succeeds returns one success block
\* that carries the transaction hash; its result reads void when the status
\* holds no payload, and the parsed value (not the JSON text) when the payload
\* is the base64 of JSON.
C10_VoidAndParsedResults ==
    \A c \in Calls :
        (req[c].tool = "call_function" /\ Done(c) /\ LedgerSucceeded(c))
        => /\ OneSuccessBlock(c)
           /\ Contains(blocks[c][1].text,
                       <<". Transaction hash: ">> \o reply[c][1].result.hash)
           /\ reply[c][1].result.successValue \in {None, Some(<<>>)}
              => blocks[c][1].text
                 = CallReport(req[c], <<"v", "o", "i", "d">>, reply[c][1].result.hash)
           /\ \A case \in PayloadCases :
                 reply[c][1].result.successValue = Some(case[1])
                 => blocks[c][1].text
                    = CallReport(req[c], case[2], reply[c][1].result.hash)

\* a call_function whose result payload is the base64 of {"a":1} has returned
\* a success block
C10_Witness ==
    \E c \in Calls :
        /\ req[c].tool = "call_function" /\ Done(c) /\ LedgerSucceeded(c)
        /\ reply[c][1].result.successValue
           = Some(<<"e", "y", "J", "h", "I", "j", "o", "x", "f", "Q", "=", "=">>)
        /\ OneSuccessBlock(c)

\* return payloads that are not JSON: the base64 a call returns, the bytes a
\* view returns, and the text both decode to (hi and {a)
RawPayloadCases ==
    {<<<<"a", "G", "k", "=">>, <<104, 105>>, <<"h", "i">>>>,
     <<<<"e", "2", "E", "=">>, <<123, 97>>, <<"{", "a">>>>}

ViewReport(r, shown) ==
    <<"Result of calling ">> \o r.methodName \o <<" on ">> \o r.contractId \o <<": ">> \o shown

\* C11: a call_function or view_function whose ledger call succeeded returns one
\* success block whatever the payload is; when the decoded payload is not JSON
\* the block shows the decoded text itself.
C11_UnparsablePayloadStaysSuccess ==
    \A c \in Calls :
        (/\ req[c].tool \in {"call_function", "view_function"}
         /\ Done(c) /\ LedgerSucceeded(c))
        => /\ OneSuccessBlock(c)
           /\ \A case \in RawPayloadCases :
                 /\ (/\ req[c].tool = "call_function"
                     /\ reply[c][1].result.successValue = Some(case[1]))
                    => blocks[c][1].text
                       = CallReport(req[c], case[3], reply[c][1].result.hash)
                 /\ (/\ req[c].tool = "view_function"
                     /\ reply[c][1].result.bytes = case[2])
                    => blocks[c][1].text = ViewReport(req[c], case[3])

\* a call_function whose payload decodes to the text {a has returned a success
\* block showing {a
C11_Witness ==
    \E c \in Calls :
        /\ req[c].tool = "call_function" /\ Done(c) /\ LedgerSucceeded(c)
        /\ reply[c][1].result.successValue = Some(<<"e", "2", "E", "=">>)
        /\ OneSuccessBlock(c)
        /\ Contains(blocks[c][1].text, <<". Result: ", "{", "a", ". Transaction hash: ">>)

\* a batch FunctionCall action that leaves args, gas and deposit out
OmitsOptionals(a) ==
    a.type = "FunctionCall" /\ a.args = None /\ a.gasTeras = None /\ a.depositNear = None

\* the same action with the documented defaults written out
WithDefaults(a) ==
    [a EXCEPT !.args = Some(JObj(<<>>)), !.gasTeras = Some(<<"3", "0">>),
              !.depositNear = Some(<<"0">>)]

\* C12: a FunctionCall action of a submitted batch that omits args, gas and
\* deposit is submitted as the same action with args {}, gas "30" and deposit
\* "0" would be: its arguments are the bytes of {} (123, 125), its gas is
\* 30 * 10^12 and its deposit is 0.
C12_OmittedFieldsAsDefaults ==
    \A c \in Calls : \A k \in 1..Len(ledger[c]) :
        IsBatch(c) =>
            \A i \in 1..Len(req[c].actions) :
                OmitsOptionals(req[c].actions[i])
                => /\ ledger[c][k].actions[i] = translate(WithDefaults(req[c].actions[i])).val
                   /\ ledger[c][k].actions[i].args = <<123, 125>>
                   /\ ledger[c][k].actions[i].gas = <<"3", "0">> \o Repeat("0", 12)
                   /\ ledger[c][k].actions[i].deposit = <<"0">>

\* C13: the transaction batch_actions submits is addressed to the request's
\* receiverId when the request gives one (an empty text counts as none, as it
\* does for `||`) and to the account id the server was set up with when it
\* gives none, whichever id the wallet reported (the empty one included); the
\* receiver handed to signAndSendTransaction is a string, never null.
C13_ReceiverGivenOrConfigured ==
    \A c \in Calls : \A k \in 1..Len(ledger[c]) :
        IsBatch(c) =>
            /\ ledger[c][k].method = "signAndSendTransaction"
            /\ ledger[c][k].receiverId # Null
            /\ entryAccountId[c] = nearAccountId /\ nearAccountId \in WalletAccountIds
            /\ ledger[c][k].receiverId
               = (IF req[c].receiverId # <<>> THEN req[c].receiverId ELSE nearAccountId)

\* a batch without receiverId has been submitted to the server's own account
C13_Witness ==
    \E c \in Calls :
        /\ IsBatch(c) /\ req[c].receiverId = <<>> /\ Len(ledger[c]) = 1
        /\ ledger[c][1].receiverId = ServerAccountId

\* a valid non-negative decimal number: digits, at most one ".", a digit on at
\* least one side of it
IsDecimalString(t) ==
    /\ t # <<>>
    /\ \A i \in 1..Len(t) : IsDigit(t[i]) \/ t[i] = "."
    /\ Cardinality({i \in 1..Len(t) : t[i] = "."}) <= 1
    /\ \E i \in 1..Len(t) : IsDigit(t[i])

\* C14: when the amount of a send_tokens request is not a valid non-negative
\* decimal number, parseNear throws for it, no ledger call is made, and the
\* handler ends with the 'Invalid NEAR amount format' error block.
C14_InvalidAmountAlwaysRejected ==
    \A c \in Calls :
        (req[c].tool = "send_tokens" /\ ~IsDecimalString(req[c].amountNear))
        => /\ PastTranslation(c) => ~parseNear(req[c].amountNear).ok
           /\ ledger[c] = <<>>
           /\ Done(c) => /\ OneErrorBlock(c)
                         /\ Contains(blocks[c][1].text, <<"Invalid NEAR amount format: \"">>)

\* the position of the "." of a decimal string, 0 when it has none
DotAt(d) == IF \E i \in 1..Len(d) : d[i] = "." THEN CHOOSE i \in 1..Len(d) : d[i] = "." ELSE 0
WholeLen(d) == IF DotAt(d) = 0 THEN Len(d) ELSE DotAt(d) - 1
FracLen(d) == IF DotAt(d) = 0 THEN 0 ELSE Len(d) - DotAt(d)
\* a decimal string without the trailing zeros of its fraction (and without a
\* "." that nothing follows)
Normalized(d) == IF DotAt(d) = 0 THEN d ELSE DropFinalDot(StripTrailingZeros(d))

\* C15 as stated: for every non-negative decimal string d with at most 24
\* fractional digits, formatNear(parseNear(d)) is d up to trailing zeros.
C15_RoundTripUpTo24Digits ==
    /\ helperPc = "parseNear" => helperOut[1].ok
    /\ (helperPc = "formatNear" /\ FracLen(helperArg.text) <= NEAR_NOMINATION_EXP)
       => Normalized(helperOut[2]) = Normalized(helperArg.text)

\* C15 as amended: parseNear accepts every such d, and when d has at most 5
\* fractional digits and a whole part of at most three digits,
\* formatNear(parseNear(d)) is d up to trailing zeros.
C15_RoundTripUpTo5Digits ==
    /\ helperPc = "parseNear" => helperOut[1].ok
    /\ (/\ helperPc = "formatNear"
        /\ FracLen(helperArg.text) <= FormatFracDigits
        /\ WholeLen(helperArg.text) <= 3)
       => Normalized(helperOut[2]) = Normalized(helperArg.text)

\* 9.50 has been converted to 95 followed by 23 zeros and back to 9.5
C15_Witness ==
    /\ helperPc = "formatNear"
    /\ helperArg.text = <<"9", ".", "5", "0">>
    /\ helperOut[1].val = <<"9", "5">> \o Repeat("0", 23)
    /\ helperOut[2] = <<"9", ".", "5">>

\* the numeral gas denotes the value of the numeral g times 10^12
IsTeraOf(gas, g) ==
    IF TextToNat(g) = 0 THEN gas = <<"0">>
    ELSE /\ Len(gas) > 12
         /\ SubSeq(gas, Len(gas) - 11, Len(gas)) = Repeat("0", 12)
         /\ SubSeq(gas, 1, Len(gas) - 12) = NatToText(TextToNat(g))

\* C16: for every gas display string g that is a non-negative integer numeral,
\* call_function and the batch FunctionCall branch both go through with a gas of
\* exactly g * 10^12, however large g is.
C16_GasTimesTenToTwelve ==
    helperPc \in {"call_function", "FunctionCall"}
    => /\ helperOut[1].ok
       /\ IsTeraOf(helperOut[1].val.gas, helperArg.text)

\* the batch FunctionCall branch has turned the gas "30" into 30 * 10^12
C16_Witness ==
    /\ helperPc = "FunctionCall"
    /\ helperArg.text = <<"3", "0">>
    /\ helperOut[1].ok
    /\ helperOut[1].val.gas = <<"3", "0">> \o Repeat("0", 12)

\* how many "=" end the text, counted up to two
PaddingCount(s) ==
    Cardinality({k \in 1..2 : k <= Len(s) /\ \A j \in (Len(s) - k + 1)..Len(s) : s[j] = "="})

\* C17: base64ByteLength returns 0 for the empty string and otherwise
\* len * 3/4 minus the padding count (four times the result is 3 * len - 4 * p);
\* a text of length 4 gives 3, 2 and 1 for no, one and two padding characters.
C17_ByteLengthFormula ==
    helperPc = "base64ByteLength"
    => /\ helperArg.text = <<>> => helperOut = <<0, <<"0">>>>
       /\ helperArg.text # <<>>
          => helperOut[1] = 3 * Len(helperArg.text) - 4 * PaddingCount(helperArg.text)
       /\ Len(helperArg.text) = 4
          => helperOut[2] = (CASE PaddingCount(helperArg.text) = 0 -> <<"3">>
                               [] PaddingCount(helperArg.text) = 1 -> <<"2">>
                               [] PaddingCount(helperArg.text) = 2 -> <<"1">>)

\* the text AA== has been measured as 1 byte
C17_Witness ==
    /\ helperPc = "base64ByteLength"
    /\ helperArg.text = <<"A", "A", "=", "=">>
    /\ helperOut = <<4, <<"1">>>>

\* display amounts and the base units they denote: 0.1 is 10^23 and 0.25 is
\* 25 * 10^22
AmountCases ==
    {<<<<"0", ".", "1">>, <<"1">> \o Repeat("0", 23)>>,
     <<<<"0", ".", "2", "5">>, <<"2", "5">> \o Repeat("0", 22)>>}

IsFunctionCallKey(a) == a.type = "AddKey" /\ a.accessKey.permission = "FunctionCall"

\* C18: in a submitted batch the stake of a Stake action is the integer
\* stakeYocto names, digit for digit, while the deposit of a Transfer, the
\* deposit of a FunctionCall and the allowance of an AddKey are the given
\* display amounts scaled by 10^24.
C18_StakeUnscaledOthersScaled ==
    \A c \in Calls : \A k \in 1..Len(ledger[c]) :
        IsBatch(c) =>
            \A i \in 1..Len(req[c].actions) :
                LET a == req[c].actions[i]
                    n == ledger[c][k].actions[i]
                IN /\ (a.type = "Stake" /\ IsNumeral(a.stakeYocto)) => n.stake = a.stakeYocto
                   /\ \A case \in AmountCases :
                         /\ (a.type \in {"Transfer", "FunctionCall"}
                             /\ a.depositNear = Some(case[1]))
                            => n.deposit = case[2]
                         /\ (IsFunctionCallKey(a) /\ a.accessKey.allowanceNear = Some(case[1]))
                            => n.accessKey.allowance = Some(case[2])

\* a batch of a Stake of 1000 and a Transfer of 0.1 has been submitted with a
\* stake of 1000 and a deposit of 10^23
C18_Witness ==
    \E c \in Calls :
        /\ IsBatch(c) /\ Len(ledger[c]) = 1 /\ Len(req[c].actions) = 2
        /\ req[c].actions[1].type = "Stake" /\ req[c].actions[2].type = "Transfer"
        /\ ledger[c][1].actions[1].stake = <<"1", "0", "0", "0">>
        /\ ledger[c][1].actions[2].deposit = <<"1">> \o Repeat("0", 23)

\* C19: in a submitted batch an AddKey action with permission FullAccess
\* carries an unrestricted key (no receiver, no method list, no allowance); one
\* with the function-call shape carries a key for exactly the given receiver,
\* with the given method names in the given order (none when none are given),
\* with the given allowance scaled by 10^24 when one is given and with no
\* allowance when it is omitted.
C19_AddKeyPermissions ==
    \A c \in Calls : \A k \in 1..Len(ledger[c]) :
        IsBatch(c) =>
            \A i \in 1..Len(req[c].actions) :
                LET a == req[c].actions[i]
                    n == ledger[c][k].actions[i]
                IN a.type = "AddKey"
                   => /\ n.kind = "addKey"
                      /\ n.publicKey = a.publicKey
                      /\ a.accessKey.permission = "FullAccess"
                         => n.accessKey = [permission |-> "fullAccess", receiverId |-> <<>>,
                                           methodNames |-> <<>>, allowance |-> None]
                      /\ IsFunctionCallKey(a)
                         => /\ n.accessKey.permission = "functionCall"
                            /\ n.accessKey.receiverId = a.accessKey.receiverId
                            /\ n.accessKey.methodNames = a.accessKey.methodNames
                            /\ a.accessKey.allowanceNear = None
                               => n.accessKey.allowance = None
                            /\ \A case \in AmountCases :
                                  a.accessKey.allowanceNear = Some(case[1])
                                  => n.accessKey.allowance = Some(case[2])

\* a batch of two function-call AddKey actions has been submitted: the first
\* key with its two method names in order and an allowance of 25 * 10^22, the
\* second with no method name and no allowance
C19_Witness ==
    \E c \in Calls :
        /\ IsBatch(c) /\ Len(ledger[c]) = 1 /\ Len(req[c].actions) = 2
        /\ IsFunctionCallKey(req[c].actions[1]) /\ IsFunctionCallKey(req[c].actions[2])
        /\ ledger[c][1].actions[1].accessKey.methodNames = <<Increase, <<"decrease">>>>
        /\ ledger[c][1].actions[1].accessKey.allowance = Some(<<"2", "5">> \o Repeat("0", 22))
        /\ ledger[c][1].actions[2].accessKey.methodNames = <<>>
        /\ ledger[c][1].actions[2].accessKey.allowance = None

\* the request is a batch that holds an action of none of the eight types
HoldsUnknownType(r) ==
    r.tool = "batch_actions" /\ \E i \in 1..Len(r.actions) : r.actions[i].type \notin ActionTypes

\* C20: a batch that holds an action of no known type never reaches the
\* ledger: the request is either rejected by the schema, with no block
\* returned, or ends in one error block; and the translator, handed such an
\* action, throws 'Unknown action type in batch' instead of passing it over.
C20_UnknownTypeNeverSubmitted ==
    \A c \in Calls :
        HoldsUnknownType(req[c])
        => /\ ledger[c] = <<>>
           /\ pc[c] # "awaiting"
           /\ \/ pc[c] = "rejected" /\ blocks[c] = <<>> /\ translated[c] = 0
              \/ pc[c] = "setup" /\ blocks[c] = <<>>
              \/ Done(c) /\ OneErrorBlock(c)
           /\ \A i \in 1..Len(req[c].actions) :
                 req[c].actions[i].type \notin ActionTypes
                 => translate(req[c].actions[i])
                    = Throw(JsError(<<"Unknown action type in batch">>))

\* a batch of a Transfer and an action of type Mint has been rejected and
\* nothing was translated or submitted
C20_Witness ==
    \E c \in Calls :
        /\ IsBatch(c) /\ Len(req[c].actions) = 2
        /\ req[c].actions[1].type = "Transfer" /\ req[c].actions[2].type = "Mint"
        /\ pc[c] = "rejected" /\ ledger[c] = <<>> /\ translated[c] = 0


\* a text in the base64 alphabet, a multiple of four characters long, padded
\* with at most two "=" and only at its end
WellFormedBase64(text) ==
    /\ Len(text) % 4 = 0
    /\ \A i \in 1..Len(text) :
           \/ text[i] \in Range(B64Alphabet)
           \/ text[i] = "=" /\ i > Len(text) - 2 /\ \A j \in i..Len(text) : text[j] = "="

\* C21: a deploy_contract call given malformed base64 never calls the ledger,
\* and when it has ended it has returned one error block that says
\* 'Invalid base64 string'.
C21_MalformedBase64IsRejected ==
    \A c \in Calls :
        (req[c].tool = "deploy_contract" /\ ~WellFormedBase64(req[c].wasmBase64))
        => /\ ledger[c] = <<>>
           /\ (Done(c) => /\ OneErrorBlock(c)
                          /\ Contains(blocks[c][1].text,
                                      <<"Invalid base64 string">>))


\* the account a ledger operation reads: the one it names, or the configured
\* account when it is a method of the account handle and names none
QueriedAccount(op) == IF op.accountId # <<>> THEN op.accountId ELSE nearAccountId

\* C22: the ledger query that a get_account_balance call issues reads the
\* account given in the request, so that two requests that differ only in
\* accountId query their respective accounts.
C22_BalanceOfProvidedAccount ==
    \A c \in Calls :
        req[c].tool = "get_account_balance"
        => \A k \in 1..Len(ledger[c]) : QueriedAccount(ledger[c][k]) = req[c].accountId


\* the identifiers a call is about: the accounts, contracts and keys its request
\* names, and the configured account
TargetIds(c) ==
    ({req[c][f] : f \in DOMAIN req[c] \cap {"accountId", "receiverId", "contractId",
                                             "beneficiaryId", "publicKey",
                                             "newAccountIdSuffix"}}
     \cup {nearAccountId}) \ {<<>>}

\* C23: every error block names the target of the operation that failed: its
\* text holds an account, contract or key that the request names, or the
\* configured account.  (The claim asks for the operation's name as well; it
\* fails on the target alone.)
C23_ErrorBlockNamesTarget ==
    \A c \in Calls :
        (Done(c) /\ OneErrorBlock(c))
        => \E id \in TargetIds(c) : Contains(blocks[c][1].text, id)


\* C28: a call_function call whose ledger operation returns a result with a
\* failure status and no success payload ends in one error block that holds
\* the failure's message.
C28_ReturnedFailureIsAnError ==
    \A c \in Calls :
        (/\ req[c].tool = "call_function"
         /\ Done(c)
         /\ LedgerSucceeded(c)
         /\ reply[c][1].result.failure # None)
        => /\ OneErrorBlock(c)
           /\ Contains(blocks[c][1].text, reply[c][1].result.failure[1])


\* the local steps of call c's try block throw, or it has none that lead to a
\* ledger operation
EndsLocally(c) ==
    req[c].tool = "verify_signature" \/ ~Attempt(req[c], entryAccountId[c]).ok

\* C25: a call issues at most one ledger operation: none before its handler
\* is past its local steps; exactly one, after local steps that all succeeded,
\* while it waits, with no reply and no block yet; and when it has ended, none
\* and no reply if it is a verify_signature call or a local step failed, and
\* one with its reply otherwise; in either case one block has been returned.
C25_AtMostOneRoundTrip ==
    \A c \in Calls :
        /\ Len(ledger[c]) <= 1
        /\ pc[c] \in {"idle", "rejected", "setup"} => ledger[c] = <<>> /\ blocks[c] = <<>>
        /\ pc[c] = "awaiting" => /\ Len(ledger[c]) = 1 /\ ~EndsLocally(c)
                                 /\ reply[c] = <<>> /\ blocks[c] = <<>>
        /\ Done(c) => /\ Len(reply[c]) = Len(ledger[c])
                      /\ ledger[c] = <<>> => EndsLocally(c)
                      /\ Len(blocks[c]) = 1
                      /\ ~escaped[c]

\* a call that issued its one operation, saw it fail and returned an error block
C25_Witness ==
    \E c \in Calls :
        Done(c) /\ Len(ledger[c]) = 1 /\ LedgerFailed(c) /\ OneErrorBlock(c)


NotInitializedTexts == {<<"NEAR Account not initialized">>, <<"NEAR Provider not initialized">>}

\* C30: no call is taken before main() has finished setupNear or after the
\* process has exited; whenever a call has been taken both handles are set, so
\* the handle its handler reads is there and no block ever reports a handle
\* that is not initialized.
C30_HandlersSeeInitialisedHandles ==
    /\ mainPc # "serving" => \A c \in Calls : pc[c] = "idle"
    /\ mainPc \in {"transport", "serving"} => Initialised
    /\ \A c \in Calls : pc[c] \notin SetupBody
    /\ \A c \in Calls :
          pc[c] # "idle"
          => /\ getAccount.ok /\ getProvider.ok
             /\ pc[c] # "rejected" => HandleOf(req[c]).ok
             /\ \A k \in 1..Len(blocks[c]) :
                    \A t \in NotInitializedTexts : ~Contains(blocks[c][k].text, t)

\* a handler has read its handle and waits for the ledger operation called on it
C30_Witness ==
    \E c \in Calls : pc[c] = "awaiting" /\ HandleOf(req[c]) = Ok(nearProvider)


Mutating(c) == req[c].tool \in {"delete_account", "add_full_access_key"}

\* C24: no call waits for another one.  A handler that has passed setupNear
\* goes on to its ledger submission (or to its error block) whatever the other
\* calls are doing, even when the submission of another call stays
\* outstanding for ever; so two submissions can be outstanding at once and can
\* be made, and answered, in either order.
C24_NoMutualExclusion ==
    \A c \in 1..MaxCalls :
        (mainPc = "serving" /\ pc[c] = "setup") ~> (pc[c] \in {"awaiting", "done"})

\* the ledger submissions of two mutating calls are outstanding at once
C24_Witness ==
    \E c, d \in Calls :
        /\ c # d
        /\ Awaiting(c) /\ Mutating(c)
        /\ Awaiting(d) /\ Mutating(d)

\* one call's submission is outstanding while the other call, received
\* earlier or later, has still to submit
C24_SubmitsSecond(c, d) == Awaiting(c) /\ Mutating(c) /\ pc[d] = "setup" /\ Mutating(d)
C24_FirstSubmitsSecond == C24_SubmitsSecond(2, 1)
C24_SecondSubmitsSecond == C24_SubmitsSecond(1, 2)
\* one call has completed while the other one's submission is outstanding
C24_CompletesFirst(c, d) == Done(c) /\ LedgerSucceeded(c) /\ Awaiting(d) /\ Mutating(d)
C24_FirstCompletesFirst == C24_CompletesFirst(1, 2)
C24_SecondCompletesFirst == C24_CompletesFirst(2, 1)


\* C27: a call leaves its wait only when the ledger answers (there is no
\* timeout and no cancellation), it has returned nothing while it waits, and
\* once the ledger has answered it has returned exactly one block; and while
\* the first call's operation stays outstanding for ever, every other call
\* that has been handed to its handler still comes to its end.
C27_HungCallBlocksOnlyItself ==
    /\ [][\A c \in 1..MaxCalls :
            (pc[c] = "awaiting" /\ pc'[c] # "awaiting")
            => (reply[c] = <<>> /\ reply'[c] # <<>> /\ pc'[c] = "done")]_vars
    /\ [](\A c \in 1..MaxCalls :
            /\ pc[c] = "awaiting" => blocks[c] = <<>>
            /\ reply[c] # <<>> => (pc[c] = "done" /\ Len(blocks[c]) = 1))
    /\ \A c \in 2..MaxCalls :
            (pc[c] \in {"setup", "awaiting"}) ~> (pc[c] = "done" /\ Len(blocks[c]) = 1)

\* the first call still waits for the ledger, with nothing returned, while a
\* later call's operation has been answered and its block returned
C27_Witness ==
    /\ pc[1] = "awaiting" /\ blocks[1] = <<>>
    /\ pc[2] = "done" /\ reply[2] # <<>> /\ Len(blocks[2]) = 1


\* C26: the connection, the account id and the two handles are assigned only
\* by the run of setupNear that main() awaits, each of them once; no handler's
\* setupNear call enters the initialization body, and no later setupNear call
\* and no handler changes them once the server is serving, however many calls
\* are in flight; and the two handles are set together.
C26_ConnectionWrittenOnce ==
    /\ []((nearAccount = <<>>) <=> (nearProvider = <<>>))
    /\ [][/\ nearConnection # <<>> => nearConnection' = nearConnection
          /\ nearAccountId # Null => nearAccountId' = nearAccountId
          /\ nearAccount # <<>> => nearAccount' = nearAccount
          /\ nearProvider # <<>> => nearProvider' = nearProvider
          /\ connVars' # connVars => (mainPc \in {"connect", "account"}
                                      /\ \A c \in 1..MaxCalls : pc[c] = "idle")
          /\ mainPc = "serving" => connVars' = connVars]_vars
    /\ [](\A c \in 1..MaxCalls : pc[c] \notin SetupBody)

\* the handles are set and one call's handler is about to return from
\* `await setupNear()` while another call's ledger operation is outstanding
C26_Witness ==
    /\ Initialised /\ nearConnection # <<>> /\ nearAccountId # Null
    /\ \E c, d \in Calls : pc[c] = "setup" /\ pc[d] = "awaiting"


OtherContract == <<"other.testnet">>

HasFunctionCall(r) == \E i \in 1..Len(r.actions) : r.actions[i].type = "FunctionCall"
WithContractId(a, k) == IF a.type = "FunctionCall" THEN [a EXCEPT !.contractId = k] ELSE a
\* request r with every FunctionCall's contractId replaced by k
Readdressed(r, k) ==
    [r EXCEPT !.actions = [i \in 1..Len(r.actions) |-> WithContractId(r.actions[i], k)]]

\* C29: a batch_actions call with a FunctionCall action submits exactly what
\* the request that differs from it only in the contractId of its FunctionCall
\* actions submits (the same receiver and the same native actions), it submits
\* nothing only if that request submits nothing either, and the receiver is
\* the batch's: the request's receiverId, or the configured account when it
\* has none.
C29_ContractIdHasNoEffect ==
    \A c \in Calls :
        (IsBatch(c) /\ HasFunctionCall(req[c]))
        => /\ pc[c] = "awaiting"
              => Ok(ledger[c][1])
                 = batch_actions_try(Readdressed(req[c], OtherContract), entryAccountId[c])
           /\ (Done(c) /\ ledger[c] = <<>>)
              => ~batch_actions_try(Readdressed(req[c], OtherContract), entryAccountId[c]).ok
           /\ \A k \in 1..Len(ledger[c]) :
                ledger[c][k].receiverId
                = IF req[c].receiverId # <<>> THEN req[c].receiverId ELSE entryAccountId[c]

\* a batch with a FunctionCall for one contract was submitted to the batch's
\* receiver, which is another account
C29_Witness ==
    \E c \in Calls :
        /\ IsBatch(c) /\ Len(ledger[c]) = 1
        /\ \E i \in 1..Len(req[c].actions) :
              /\ req[c].actions[i].type = "FunctionCall"
              /\ req[c].actions[i].contractId # ledger[c][1].receiverId
        /\ ledger[c][1].receiverId = Bob

=============================================================================
